---- MODULE Spec2Model ----
(***************************************************************************)
(* Model of the Diorama ray caster: Color arithmetic (color.rs), the slab  *)
(* intersection of Cube and RectangularPrism (cube.rs,                     *)
(* rectangular_prism.rs) and the nearest-hit scan and shading of cast_ray  *)
(* (main.rs).                                                              *)
(*                                                                         *)
(* An f32 is modelled as a pair <<m, e>>: the value m * 2^e with m odd and *)
(* |m| < 2^24 (<<0, 0>> for zero), <<1, 1000>> for +infinity,              *)
(* <<-1, 1000>> for -infinity and <<0, 1000>> for NaN.  Every operation    *)
(* rounds its exact result to the nearest f32, a tie to the even mantissa, *)
(* as IEEE 754 binary32 does.  <<0, -1>> is the zero of negative sign,     *)
(* -0.0, which compares equal to 0.0 and gives the opposite infinities as  *)
(* a divisor.                                                              *)
(***************************************************************************)
EXTENDS Integers, Sequences, FiniteSets, TLC

(***************************************************************************)
(* f32                                                                     *)
(***************************************************************************)
Abs(i) == IF i < 0 THEN -i ELSE i
Sgn(i) == IF i > 0 THEN 1 ELSE IF i < 0 THEN -1 ELSE 0

Pow2Tab ==
    <<1, 2, 4, 8, 16, 32, 64, 128, 256, 512, 1024, 2048, 4096, 8192, 16384,
      32768, 65536, 131072, 262144, 524288, 1048576, 2097152, 4194304,
      8388608, 16777216, 33554432, 67108864, 134217728, 268435456, 536870912,
      1073741824>>
Pow2(k) == Pow2Tab[k + 1]

\* number of bits of 0 <= n < 2^31
BitLen8(n) ==
    IF n < 16
    THEN (IF n < 4 THEN (IF n < 2 THEN n ELSE 2) ELSE (IF n < 8 THEN 3 ELSE 4))
    ELSE (IF n < 64 THEN (IF n < 32 THEN 5 ELSE 6) ELSE (IF n < 128 THEN 7 ELSE 8))
BitLen(n) ==
    IF n < 65536
    THEN (IF n < 256 THEN BitLen8(n) ELSE 8 + BitLen8(n \div 256))
    ELSE (IF n < 16777216 THEN 16 + BitLen8(n \div 65536)
          ELSE 24 + BitLen8(n \div 16777216))

Zero == <<0, 0>>
NegZero == <<0, -1>>
One == <<1, 0>>
NaN == <<0, 1000>>
PosInf == <<1, 1000>>
NegInf == <<-1, 1000>>

IsNaN(a) == a = NaN
IsFinite(a) == a[2] < 1000
IsZero(a) == a[1] = 0 /\ a[2] < 1000

\* the sign bit of a, that a zero has too: -1 when set, else 1
SignOf(a) == IF a[1] < 0 \/ a = NegZero THEN -1 ELSE 1
\* the zero of a sign
ZeroOf(sign) == IF sign < 0 THEN NegZero ELSE Zero

\* the pair of the value m * 2^e, m # 0: the factors of two go to the exponent
RECURSIVE Canon(_, _)
Canon(m, e) == IF m % 2 = 0 THEN Canon(m \div 2, e + 1) ELSE <<m, e>>

\* the f32 of magnitude R * 2^q once rounded: above the largest f32 it is an
\* infinity
Finish(sign, R, q) ==
    IF R = 0 THEN ZeroOf(sign)
    ELSE IF BitLen(R) + q > 128 THEN <<sign, 1000>>
    ELSE Canon(sign * R, q)

\* M cut to its bits above the quantum 2^(E + shift), rounded to nearest,
\* a tie to even; sticky tells that the exact value has bits below M
RoundShift(sign, M, E, sticky, shift) ==
    IF shift <= 0 THEN Finish(sign, M, E)
    ELSE IF shift > 30 THEN ZeroOf(sign)
    ELSE Finish(sign,
                (M \div Pow2(shift))
                  + (IF \/ M % Pow2(shift) > Pow2(shift - 1)
                        \/ /\ M % Pow2(shift) = Pow2(shift - 1)
                           /\ (sticky \/ (M \div Pow2(shift)) % 2 = 1)
                     THEN 1 ELSE 0),
                E + shift)

\* the f32 nearest to sign * (M + fraction) * 2^E, 0 <= M < 2^30, where the
\* fraction is nonzero iff sticky (M then has 26 bits or more): 24 bits are
\* kept, fewer below 2^-126, and none below the quantum 2^-149
RoundF(sign, M, E, sticky) ==
    IF M = 0 THEN Zero
    ELSE RoundShift(sign, M, E, sticky,
                    IF E + BitLen(M) - 24 > -149 THEN BitLen(M) - 24
                    ELSE -149 - E)

\* `i as f32`
F(i) ==
    IF Abs(i) < 1073741824 THEN RoundF(Sgn(i), Abs(i), 0, FALSE)
    ELSE RoundF(Sgn(i), Abs(i) \div 2, 1, Abs(i) % 2 = 1)

Two == <<1, 1>>

FNeg(a) ==
    IF a = Zero THEN NegZero ELSE IF a = NegZero THEN Zero ELSE <<-a[1], a[2]>>
FAbs(a) == IF a = NegZero THEN Zero ELSE <<Abs(a[1]), a[2]>>

\* a + b for finite nonzero a, b with a[2] >= b[2], La the bits of |a[1]|:
\* exact when both fit in 30 bits, else a is widened to 29 bits and b, far
\* below, only decides the rounding
AddOrdered(a, b, La) ==
    IF La + (a[2] - b[2]) <= 29
    THEN RoundF(Sgn(a[1] * Pow2(a[2] - b[2]) + b[1]),
                Abs(a[1] * Pow2(a[2] - b[2]) + b[1]), b[2], FALSE)
    ELSE IF Sgn(a[1]) = Sgn(b[1])
    THEN RoundF(Sgn(a[1]),
                Abs(a[1]) * Pow2(29 - La)
                  + (IF a[2] - (29 - La) - b[2] > 30 THEN 0
                     ELSE Abs(b[1]) \div Pow2(a[2] - (29 - La) - b[2])),
                a[2] - (29 - La), TRUE)
    ELSE RoundF(Sgn(a[1]),
                Abs(a[1]) * Pow2(29 - La)
                  - (IF a[2] - (29 - La) - b[2] > 30 THEN 0
                     ELSE Abs(b[1]) \div Pow2(a[2] - (29 - La) - b[2]))
                  - 1,
                a[2] - (29 - La), TRUE)

FAdd(a, b) ==
    IF IsNaN(a) \/ IsNaN(b) THEN NaN
    ELSE IF ~IsFinite(a) /\ ~IsFinite(b) THEN (IF a = b THEN a ELSE NaN)
    ELSE IF ~IsFinite(a) THEN a
    ELSE IF ~IsFinite(b) THEN b
    ELSE IF a[1] = 0 /\ b[1] = 0
         THEN (IF a = NegZero /\ b = NegZero THEN NegZero ELSE Zero)
    ELSE IF a[1] = 0 THEN b
    ELSE IF b[1] = 0 THEN a
    ELSE IF a[2] >= b[2] THEN AddOrdered(a, b, BitLen(Abs(a[1])))
    ELSE AddOrdered(b, a, BitLen(Abs(b[1])))

FSub(a, b) == FAdd(a, FNeg(b))

\* the product H * 2^24 + L of two 24-bit magnitudes, H > 0, cut to 29 bits
MulWide(sign, H, L, E, k) ==
    RoundF(sign, H * Pow2(k) + (L \div Pow2(24 - k)), E + 24 - k,
           L % Pow2(24 - k) # 0)

\* the sum of the partial products: hi * 2^24 + mid * 2^12 + lo
MulParts(sign, hi, mid, lo, E) ==
    IF hi + (mid \div 4096) + (((mid % 4096) * 4096 + lo) \div 16777216) = 0
    THEN RoundF(sign, ((mid % 4096) * 4096 + lo) % 16777216, E, FALSE)
    ELSE MulWide(sign,
                 hi + (mid \div 4096) + (((mid % 4096) * 4096 + lo) \div 16777216),
                 ((mid % 4096) * 4096 + lo) % 16777216,
                 E,
                 IF 29 - BitLen(hi + (mid \div 4096)
                                 + (((mid % 4096) * 4096 + lo) \div 16777216)) > 24
                 THEN 24
                 ELSE 29 - BitLen(hi + (mid \div 4096)
                                  + (((mid % 4096) * 4096 + lo) \div 16777216)))

\* the product of the magnitudes A and B, by halves of 12 bits when it does
\* not fit in 30 bits
MulMag(sign, A, B, E) ==
    IF A < 32768 /\ B < 32768 THEN RoundF(sign, A * B, E, FALSE)
    ELSE MulParts(sign, (A \div 4096) * (B \div 4096),
                  (A \div 4096) * (B % 4096) + (A % 4096) * (B \div 4096),
                  (A % 4096) * (B % 4096), E)

FMul(a, b) ==
    IF IsNaN(a) \/ IsNaN(b) THEN NaN
    ELSE IF ~IsFinite(a) \/ ~IsFinite(b)
         THEN (IF a[1] = 0 \/ b[1] = 0 THEN NaN
               ELSE <<Sgn(a[1]) * Sgn(b[1]), 1000>>)
    ELSE IF a[1] = 0 \/ b[1] = 0 THEN ZeroOf(SignOf(a) * SignOf(b))
    ELSE MulMag(Sgn(a[1]) * Sgn(b[1]), Abs(a[1]), Abs(b[1]), a[2] + b[2])

\* n more bits of the quotient Q, remainder r, divisor B
RECURSIVE DivSteps(_, _, _, _)
DivSteps(Q, r, B, n) ==
    IF n = 0 THEN <<Q, r>>
    ELSE IF 2 * r >= B THEN DivSteps(2 * Q + 1, 2 * r - B, B, n - 1)
    ELSE DivSteps(2 * Q, 2 * r, B, n - 1)

DivRound(sign, qr, E) == RoundF(sign, qr[1], E, qr[2] # 0)

\* the quotient of magnitudes widened to 24 bits each: 28 bits of it
DivNorm(sign, An, Bn, E) ==
    DivRound(sign,
             DivSteps(IF An >= Bn THEN 1 ELSE 0,
                      IF An >= Bn THEN An - Bn ELSE An, Bn, 28),
             E - 28)

DivMag(sign, A, B, ea, eb) ==
    IF A % B = 0 THEN RoundF(sign, A \div B, ea - eb, FALSE)
    ELSE DivNorm(sign, A * Pow2(24 - BitLen(A)), B * Pow2(24 - BitLen(B)),
                 (ea - (24 - BitLen(A))) - (eb - (24 - BitLen(B))))

\* IEEE division: the sign is the product of the signs, x/0 is an infinity,
\* 0/0 and inf/inf are NaN
FDiv(a, b) ==
    IF IsNaN(a) \/ IsNaN(b) THEN NaN
    ELSE IF ~IsFinite(a) /\ ~IsFinite(b) THEN NaN
    ELSE IF ~IsFinite(a) THEN <<SignOf(a) * SignOf(b), 1000>>
    ELSE IF ~IsFinite(b) THEN ZeroOf(SignOf(a) * SignOf(b))
    ELSE IF b[1] = 0
         THEN (IF a[1] = 0 THEN NaN ELSE <<SignOf(a) * SignOf(b), 1000>>)
    ELSE IF a[1] = 0 THEN ZeroOf(SignOf(a) * SignOf(b))
    ELSE DivMag(Sgn(a[1]) * Sgn(b[1]), Abs(a[1]), Abs(b[1]), a[2], b[2])

\* the f32 a decimal literal n/d of the source denotes
Frac(n, d) == FDiv(F(n), F(d))

\* A * 2^ea < B * 2^eb for magnitudes A, B > 0
MagLt(A, ea, B, eb) ==
    IF ea = eb THEN A < B
    ELSE IF ea + BitLen(A) # eb + BitLen(B) THEN ea + BitLen(A) < eb + BitLen(B)
    ELSE A * Pow2(24 - BitLen(A)) < B * Pow2(24 - BitLen(B))

\* a < b on f32: false as soon as one side is NaN, and between the two zeros
FLt(a, b) ==
    /\ ~IsNaN(a)
    /\ ~IsNaN(b)
    /\ a # b
    /\ ~(IsZero(a) /\ IsZero(b))
    /\ IF ~IsFinite(a) THEN a[1] < 0
       ELSE IF ~IsFinite(b) THEN b[1] > 0
       ELSE IF Sgn(a[1]) # Sgn(b[1]) THEN a[1] < b[1]
       ELSE IF a[1] > 0 THEN MagLt(a[1], a[2], b[1], b[2])
       ELSE MagLt(-b[1], b[2], -a[1], a[2])

FGt(a, b) == FLt(b, a)
FLe(a, b) == ~IsNaN(a) /\ ~IsNaN(b) /\ ~FLt(b, a)
FGe(a, b) == FLe(b, a)
\* a == b on f32: the two zeros are equal, NaN equals nothing
FEq(a, b) == ~IsNaN(a) /\ ~IsNaN(b) /\ (a = b \/ (IsZero(a) /\ IsZero(b)))

\* f32::min and f32::max leave open which argument is returned when the two
\* compare equal, which only shows between 0.0 and -0.0: the receiver, the
\* argument, or the lesser (min) and the greater (max) of the two zeros,
\* as the target's instruction or libm has it
ZeroTies == {"self", "other", "ordered"}

\* f32::min and f32::max: when one argument is NaN the other is returned
FMin(a, b, tie) ==
    IF IsNaN(a) THEN b ELSE IF IsNaN(b) THEN a
    ELSE IF FLt(b, a) THEN b
    ELSE IF a = b \/ FLt(a, b) THEN a
    ELSE IF tie = "self" THEN a ELSE IF tie = "other" THEN b ELSE NegZero
FMax(a, b, tie) ==
    IF IsNaN(a) THEN b ELSE IF IsNaN(b) THEN a
    ELSE IF FGt(b, a) THEN b
    ELSE IF a = b \/ FGt(a, b) THEN a
    ELSE IF tie = "self" THEN a ELSE IF tie = "other" THEN b ELSE Zero

\* f32::clamp(lo, hi): NaN stays NaN
FClamp(a, lo, hi) ==
    IF IsNaN(a) THEN NaN
    ELSE IF FLt(a, lo) THEN lo
    ELSE IF FGt(a, hi) THEN hi
    ELSE a

\* the whole part of a finite a >= 0 below 2^31
Trunc(a) ==
    IF a[2] >= 0 THEN a[1] * Pow2(a[2])
    ELSE IF -a[2] > 30 THEN 0
    ELSE a[1] \div Pow2(-a[2])

\* the square root by digits: n more bits of the root, the radicand R handing
\* over its pairs of bits from position 2 * (i - 1), zeros after them
RECURSIVE SqrtDigits(_, _, _, _, _)
SqrtDigits(root, rem, R, i, n) ==
    IF n = 0 THEN <<root, rem>>
    ELSE IF 4 * rem + (IF i > 0 THEN (R \div Pow2(2 * (i - 1))) % 4 ELSE 0)
              >= 4 * root + 1
    THEN SqrtDigits(2 * root + 1,
                   4 * rem + (IF i > 0 THEN (R \div Pow2(2 * (i - 1))) % 4 ELSE 0)
                     - (4 * root + 1),
                   R, i - 1, n - 1)
    ELSE SqrtDigits(2 * root,
                   4 * rem + (IF i > 0 THEN (R \div Pow2(2 * (i - 1))) % 4 ELSE 0),
                   R, i - 1, n - 1)

SqrtRound(rr, E) == RoundF(1, rr[1], E, rr[2] # 0)

\* the root of R * 2^E, 2^24 <= R < 2^26, E even: 27 bits of it
SqrtNorm(R, E) == SqrtRound(SqrtDigits(0, 0, R, 13, 27), (E \div 2) - 14)

\* the shift that widens m to 25 or 26 bits and leaves an even exponent
SqrtShift(m, e) ==
    IF (e - (25 - BitLen(m))) % 2 = 0 THEN 25 - BitLen(m) ELSE 26 - BitLen(m)

\* f32::sqrt
FSqrt(a) ==
    IF IsNaN(a) THEN NaN
    ELSE IF a[1] < 0 THEN NaN
    ELSE IF ~IsFinite(a) THEN a
    ELSE IF a[1] = 0 THEN a
    ELSE SqrtNorm(a[1] * Pow2(SqrtShift(a[1], a[2])), a[2] - SqrtShift(a[1], a[2]))

(***************************************************************************)
(* Vec3                                                                    *)
(***************************************************************************)
Vec3(x, y, z) == [x |-> x, y |-> y, z |-> z]

VAdd(a, b) == Vec3(FAdd(a.x, b.x), FAdd(a.y, b.y), FAdd(a.z, b.z))
VSub(a, b) == Vec3(FSub(a.x, b.x), FSub(a.y, b.y), FSub(a.z, b.z))
VScale(a, t) == Vec3(FMul(a.x, t), FMul(a.y, t), FMul(a.z, t))
component_div(a, b) == Vec3(FDiv(a.x, b.x), FDiv(a.y, b.y), FDiv(a.z, b.z))
VDot(a, b) == FAdd(FAdd(FMul(a.x, b.x), FMul(a.y, b.y)), FMul(a.z, b.z))

(***************************************************************************)
(* Color (color.rs)                                                        *)
(***************************************************************************)
Color(r, g, b) == [r |-> r, g |-> g, b |-> b]

\* u8::saturating_add
saturating_add_wrapping(a, b) == (a + b) % 256
saturating_add(a, b) == IF a + b > 255 THEN 255 ELSE a + b

\* impl Add for Color
ColorAdd(a, b) ==
    Color(saturating_add(a.r, b.r), saturating_add(a.g, b.g),
          saturating_add(a.b, b.b))

\* impl AddAssign for Color: the new value of self
ColorAddAssign(self, other) ==
    [self EXCEPT !.r = saturating_add(self.r, other.r),
                 !.g = saturating_add(self.g, other.g),
                 !.b = saturating_add(self.b, other.b)]

\* `x as u8` of an f32: truncates toward zero, saturates, NaN gives 0
AsU8(a) ==
    IF IsNaN(a) THEN 0
    ELSE IF a[1] <= 0 THEN 0
    ELSE IF ~IsFinite(a) THEN 255
    ELSE IF a[2] + BitLen(a[1]) > 8 THEN 255
    ELSE Trunc(a)

\* one channel of Color * f32
WrapU8(p) ==
    IF ~IsFinite(p) \/ p[2] + BitLen(Abs(p[1])) > 31 THEN AsU8(p)
    ELSE IF p[1] >= 0 THEN Trunc(p) % 256
    ELSE (256 - (Trunc(FAbs(p)) % 256)) % 256
MulChannel_noclamp(c, scalar) == WrapU8(FMul(F(c), scalar))
MulChannel(c, scalar) == AsU8(FClamp(FMul(F(c), scalar), F(0), F(255)))

\* impl Mul<f32> for Color
ColorMul(self, scalar) ==
    Color(MulChannel(self.r, scalar), MulChannel(self.g, scalar),
          MulChannel(self.b, scalar))

(***************************************************************************)
(* Material, Texture (material.rs) and Intersect                           *)
(***************************************************************************)
\* Option::None
None == [none |-> TRUE]

\* a Vec<u8> is given by its length and its bytes as a function of the
\* position: the byte at position i, from 0, is (first + step * i) % 256
Bytes(len, first, step) == [len |-> len, first |-> first, step |-> step]
ByteAt(data, i) == (data.first + data.step * i) % 256

Texture(data, width, height) ==
    [data |-> data, width |-> width, height |-> height]

Material(diffuse, specular, albedo, texture, emission) ==
    [diffuse |-> diffuse, specular |-> specular, albedo |-> albedo,
     texture |-> texture, emission |-> emission]

MaterialBlack ==
    Material(Color(0, 0, 0), Zero, <<Zero, Zero>>, None, Color(0, 0, 0))

IntersectNew(point, normal, distance, material, u, v) ==
    [point |-> point, normal |-> normal, distance |-> distance,
     material |-> material, u |-> u, v |-> v, is_intersecting |-> TRUE]

\* the "no intersection" sentinel
IntersectEmpty ==
    [point |-> Vec3(Zero, Zero, Zero), normal |-> Vec3(Zero, Zero, Zero),
     distance |-> Zero, material |-> MaterialBlack, u |-> Zero, v |-> Zero,
     is_intersecting |-> FALSE]

(***************************************************************************)
(* Cube (cube.rs)                                                          *)
(***************************************************************************)
Cube(center, side_length, material) ==
    [center |-> center, side_length |-> side_length, material |-> material]

\* calculate_normal with strict comparisons: an edge or a corner falls to Z
CubeCalculateNormal_strict(point, center, side_length) ==
    LET half_side == FDiv(side_length, Two)
        x_diff == FSub(FAbs(FSub(point.x, center.x)), half_side)
        y_diff == FSub(FAbs(FSub(point.y, center.y)), half_side)
        z_diff == FSub(FAbs(FSub(point.z, center.z)), half_side)
    IN  IF FGt(x_diff, y_diff) /\ FGt(x_diff, z_diff)
        THEN IF FGt(point.x, center.x)
             THEN Vec3(One, Zero, Zero)
             ELSE Vec3(FNeg(One), Zero, Zero)
        ELSE IF FGt(y_diff, x_diff) /\ FGt(y_diff, z_diff)
        THEN IF FGt(point.y, center.y)
             THEN Vec3(Zero, One, Zero)
             ELSE Vec3(Zero, FNeg(One), Zero)
        ELSE IF FGt(point.z, center.z)
             THEN Vec3(Zero, Zero, One)
             ELSE Vec3(Zero, Zero, FNeg(One))

CubeCalculateNormal(point, center, side_length) ==
    LET half_side == FDiv(side_length, Two)
        x_diff == FSub(FAbs(FSub(point.x, center.x)), half_side)
        y_diff == FSub(FAbs(FSub(point.y, center.y)), half_side)
        z_diff == FSub(FAbs(FSub(point.z, center.z)), half_side)
    IN  IF FGe(x_diff, y_diff) /\ FGe(x_diff, z_diff)
        THEN IF FGt(point.x, center.x)
             THEN Vec3(One, Zero, Zero)
             ELSE Vec3(FNeg(One), Zero, Zero)
        ELSE IF FGe(y_diff, x_diff) /\ FGe(y_diff, z_diff)
        THEN IF FGt(point.y, center.y)
             THEN Vec3(Zero, One, Zero)
             ELSE Vec3(Zero, FNeg(One), Zero)
        ELSE IF FGt(point.z, center.z)
             THEN Vec3(Zero, Zero, One)
             ELSE Vec3(Zero, Zero, FNeg(One))

\* Cube::ray_intersect is modelled as a chain of operators, each handing the
\* locals computed so far to the next: CubeSlab (up to t_near_val and
\* t_far_val), CubeRayIntersect (the early return, t and the hit point),
\* CubeHitAt (the normal) and CubeHitWithNormal (u, v and the result).  What
\* min and max do with two zeros is the target's choice, so the locals and
\* the result are sets: of one element unless two zeros met.

\* t_near, t_far and their reductions, from t_min and t_max
CubeNearFarOn(min, max, t_min, t_max, tie) ==
    [min |-> min, max |-> max, t_min |-> t_min, t_max |-> t_max,
     t_near_val |->
         FMax(FMax(FMin(t_min.x, t_max.x, tie), FMin(t_min.y, t_max.y, tie), tie),
              FMin(t_min.z, t_max.z, tie), tie),
     t_far_val |->
         FMin(FMin(FMax(t_min.x, t_max.x, tie), FMax(t_min.y, t_max.y, tie), tie),
              FMax(t_min.z, t_max.z, tie), tie)]

\* the locals on every target
CubeNearFar(min, max, t_min, t_max) ==
    {CubeNearFarOn(min, max, t_min, t_max, tie) : tie \in ZeroTies}

\* t_min and t_max, from the corners
CubeCorners(min, max, ray_origin, ray_direction) ==
    CubeNearFar(min, max,
                component_div(VSub(min, ray_origin), ray_direction),
                component_div(VSub(max, ray_origin), ray_direction))

\* min and max, from half_size
CubeHalf(self, half_size, ray_origin, ray_direction) ==
    CubeCorners(VSub(self.center, Vec3(half_size, half_size, half_size)),
                VAdd(self.center, Vec3(half_size, half_size, half_size)),
                ray_origin, ray_direction)

\* the locals of Cube::ray_intersect up to the early return: the set of what
\* they can be, one element unless two zeros met in a min or a max
CubeSlab(self, ray_origin, ray_direction) ==
    CubeHalf(self, FDiv(self.side_length, Two), ray_origin, ray_direction)

\* the early-return test of Cube::ray_intersect
CubeMiss_near_only(t_near_val, t_far_val) == FGt(t_near_val, t_far_val)
CubeMiss(t_near_val, t_far_val) ==
    FGt(t_near_val, t_far_val) \/ FLt(t_far_val, Zero)

\* the choice of t in Cube::ray_intersect
CubeT_always_near(t_near_val, t_far_val) == t_near_val
CubeT(t_near_val, t_far_val) ==
    IF FLt(t_near_val, Zero) THEN t_far_val ELSE t_near_val

\* u, v and the Intersect returned
CubeHitWithNormal(self, s, t, intersection_point, normal) ==
    IntersectNew(intersection_point, normal, t, self.material,
        IF normal.x = One
        THEN FDiv(FSub(intersection_point.z, s.min.z), self.side_length)
        ELSE IF normal.x = FNeg(One)
        THEN FDiv(FSub(intersection_point.z, s.max.z), self.side_length)
        ELSE FDiv(FSub(intersection_point.x, s.min.x), self.side_length),
        IF normal.y = One
        THEN FDiv(FSub(intersection_point.z, s.min.z), self.side_length)
        ELSE IF normal.y = FNeg(One)
        THEN FDiv(FSub(intersection_point.z, s.max.z), self.side_length)
        ELSE FDiv(FSub(intersection_point.y, s.min.y), self.side_length))

\* the normal of the hit point
CubeHitAt(self, s, t, intersection_point) ==
    CubeHitWithNormal(self, s, t, intersection_point,
        CubeCalculateNormal(intersection_point, self.center, self.side_length))

\* the early return, t and the hit point
CubeAfterSlab(self, s, ray_origin, ray_direction) ==
    IF CubeMiss(s.t_near_val, s.t_far_val) THEN IntersectEmpty
    ELSE CubeHitAt(self, s, CubeT(s.t_near_val, s.t_far_val),
             VAdd(ray_origin,
                  VScale(ray_direction, CubeT(s.t_near_val, s.t_far_val))))

\* Cube::ray_intersect: the set of what it can return
CubeRayIntersect(self, ray_origin, ray_direction) ==
    {CubeAfterSlab(self, s, ray_origin, ray_direction) :
        s \in CubeSlab(self, ray_origin, ray_direction)}

(***************************************************************************)
(* RectangularPrism (rectangular_prism.rs)                                 *)
(***************************************************************************)
RectangularPrism(center, width, height, depth, material) ==
    [center |-> center, width |-> width, height |-> height,
     depth |-> depth, material |-> material]

\* PrismCalculateNormal with the Y test placed before the X test
PrismCalculateNormal_y_first(point, center, width, height, depth) ==
    LET half_width == FDiv(width, Two)
        half_height == FDiv(height, Two)
        half_depth == FDiv(depth, Two)
        x_diff == FSub(FAbs(FSub(point.x, center.x)), half_width)
        y_diff == FSub(FAbs(FSub(point.y, center.y)), half_height)
        z_diff == FSub(FAbs(FSub(point.z, center.z)), half_depth)
    IN  IF FGe(y_diff, x_diff) /\ FGe(y_diff, z_diff)
        THEN IF FGt(point.y, center.y)
             THEN Vec3(Zero, One, Zero)
             ELSE Vec3(Zero, FNeg(One), Zero)
        ELSE IF FGe(x_diff, y_diff) /\ FGe(x_diff, z_diff)
        THEN IF FGt(point.x, center.x)
             THEN Vec3(One, Zero, Zero)
             ELSE Vec3(FNeg(One), Zero, Zero)
        ELSE IF FGt(point.z, center.z)
             THEN Vec3(Zero, Zero, One)
             ELSE Vec3(Zero, Zero, FNeg(One))

PrismCalculateNormal(point, center, width, height, depth) ==
    LET half_width == FDiv(width, Two)
        half_height == FDiv(height, Two)
        half_depth == FDiv(depth, Two)
        x_diff == FSub(FAbs(FSub(point.x, center.x)), half_width)
        y_diff == FSub(FAbs(FSub(point.y, center.y)), half_height)
        z_diff == FSub(FAbs(FSub(point.z, center.z)), half_depth)
    IN  IF FGe(x_diff, y_diff) /\ FGe(x_diff, z_diff)
        THEN IF FGt(point.x, center.x)
             THEN Vec3(One, Zero, Zero)
             ELSE Vec3(FNeg(One), Zero, Zero)
        ELSE IF FGe(y_diff, x_diff) /\ FGe(y_diff, z_diff)
        THEN IF FGt(point.y, center.y)
             THEN Vec3(Zero, One, Zero)
             ELSE Vec3(Zero, FNeg(One), Zero)
        ELSE IF FGt(point.z, center.z)
             THEN Vec3(Zero, Zero, One)
             ELSE Vec3(Zero, Zero, FNeg(One))

\* RectangularPrism::ray_intersect is modelled by the same chain of operators
\* as Cube::ray_intersect.

\* t_near, t_far and their reductions, from t_min and t_max
PrismNearFarOn(min, max, t_min, t_max, tie) ==
    [min |-> min, max |-> max, t_min |-> t_min, t_max |-> t_max,
     t_near_val |->
         FMax(FMax(FMin(t_min.x, t_max.x, tie), FMin(t_min.y, t_max.y, tie), tie),
              FMin(t_min.z, t_max.z, tie), tie),
     t_far_val |->
         FMin(FMin(FMax(t_min.x, t_max.x, tie), FMax(t_min.y, t_max.y, tie), tie),
              FMax(t_min.z, t_max.z, tie), tie)]

\* the locals on every target
PrismNearFar(min, max, t_min, t_max) ==
    {PrismNearFarOn(min, max, t_min, t_max, tie) : tie \in ZeroTies}

\* t_min and t_max, from the corners
PrismCorners(min, max, ray_origin, ray_direction) ==
    PrismNearFar(min, max,
                 component_div(VSub(min, ray_origin), ray_direction),
                 component_div(VSub(max, ray_origin), ray_direction))

\* min and max, from the half extents
PrismHalf(self, half_width, half_height, half_depth, ray_origin, ray_direction) ==
    PrismCorners(VSub(self.center, Vec3(half_width, half_height, half_depth)),
                 VAdd(self.center, Vec3(half_width, half_height, half_depth)),
                 ray_origin, ray_direction)

\* PrismSlab with half the width used as the half extent of every axis
PrismSlab_uniform_half(self, ray_origin, ray_direction) ==
    PrismHalf(self, FDiv(self.width, Two), FDiv(self.width, Two),
              FDiv(self.width, Two), ray_origin, ray_direction)

\* the locals of RectangularPrism::ray_intersect up to the early return: the
\* set of what they can be
PrismSlab(self, ray_origin, ray_direction) ==
    PrismHalf(self, FDiv(self.width, Two), FDiv(self.height, Two),
              FDiv(self.depth, Two), ray_origin, ray_direction)

\* the early-return test of RectangularPrism::ray_intersect
PrismMiss(t_near_val, t_far_val) ==
    FGt(t_near_val, t_far_val) \/ FLt(t_far_val, Zero)

\* the choice of t in RectangularPrism::ray_intersect
PrismT(t_near_val, t_far_val) ==
    IF FLt(t_near_val, Zero) THEN t_far_val ELSE t_near_val

\* u, v and the Intersect returned
PrismHitWithNormal(self, s, t, intersection_point, normal) ==
    IntersectNew(intersection_point, normal, t, self.material,
        IF normal.x = One
        THEN FDiv(FSub(intersection_point.z, s.min.z), self.depth)
        ELSE IF normal.x = FNeg(One)
        THEN FDiv(FSub(intersection_point.z, s.max.z), self.depth)
        ELSE FDiv(FSub(intersection_point.x, s.min.x), self.width),
        IF normal.y = One
        THEN FDiv(FSub(intersection_point.z, s.min.z), self.depth)
        ELSE IF normal.y = FNeg(One)
        THEN FDiv(FSub(intersection_point.z, s.max.z), self.depth)
        ELSE FDiv(FSub(intersection_point.y, s.min.y), self.height))

\* the normal of the hit point
PrismHitAt(self, s, t, intersection_point) ==
    PrismHitWithNormal(self, s, t, intersection_point,
        PrismCalculateNormal(intersection_point, self.center,
                             self.width, self.height, self.depth))

\* the early return, t and the hit point
PrismAfterSlab(self, s, ray_origin, ray_direction) ==
    IF PrismMiss(s.t_near_val, s.t_far_val) THEN IntersectEmpty
    ELSE PrismHitAt(self, s, PrismT(s.t_near_val, s.t_far_val),
             VAdd(ray_origin,
                  VScale(ray_direction, PrismT(s.t_near_val, s.t_far_val))))

\* RectangularPrism::ray_intersect: the set of what it can return
PrismRayIntersect(self, ray_origin, ray_direction) ==
    {PrismAfterSlab(self, s, ray_origin, ray_direction) :
        s \in PrismSlab(self, ray_origin, ray_direction)}

(***************************************************************************)
(* Texture sampling of cast_ray (main.rs:61-72)                            *)
(***************************************************************************)
\* `x as usize` of an f32 (64-bit usize): truncates toward zero, NaN and
\* negatives give 0, 2^64 and above give usize::MAX; a whole number of 2^31
\* or more is given as the f32 that holds it
AsUsize(a) ==
    IF IsNaN(a) THEN 0
    ELSE IF a[1] <= 0 THEN 0
    ELSE IF ~IsFinite(a) THEN [usize |-> "MAX"]
    ELSE IF a[2] + BitLen(a[1]) > 64 THEN [usize |-> "MAX"]
    ELSE IF a[2] + BitLen(a[1]) > 31 THEN [usize_of |-> a]
    ELSE Trunc(a)

\* texture_x (and, with v and the height, texture_y)
texture_x(u, texture_width) ==
    AsUsize(FClamp(FMul(u, F(texture_width)), Zero, F(texture_width - 1)))

texture_y(v, texture_height) ==
    AsUsize(FClamp(FMul(v, F(texture_height)), Zero, F(texture_height - 1)))

texture_index(texture, u, v) ==
    (texture_y(v, texture.height) * texture.width
        + texture_x(u, texture.width)) * 4

\* the outcome of an out-of-range slice index
Panic == [panic |-> TRUE]

\* &texture.data[texture_index..texture_index + 4] and tex_color: the color of
\* the first three bytes, or the panic of a slice that ends past the data
tex_color(texture, u, v) ==
    LET index == texture_index(texture, u, v)
    IN  IF index + 4 <= texture.data.len
        THEN Color(ByteAt(texture.data, index), ByteAt(texture.data, index + 1),
                   ByteAt(texture.data, index + 2))
        ELSE Panic

(***************************************************************************)
(* Light and the lighting of cast_ray (main.rs:24-26, 53-82)               *)
(***************************************************************************)
Light(position, color, intensity) ==
    [position |-> position, color |-> color, intensity |-> intensity]

VNeg(a) == Vec3(FNeg(a.x), FNeg(a.y), FNeg(a.z))

\* nalgebra's normalize: the vector divided by its norm
unscale(v, norm) == Vec3(FDiv(v.x, norm), FDiv(v.y, norm), FDiv(v.z, norm))
normalize(v) == unscale(v, FSqrt(VDot(v, v)))

reflect(incident, normal) ==
    VSub(incident, VScale(normal, FMul(Two, VDot(incident, normal))))

\* f32::powf.  Rust leaves the precision of powf open (the libm of the target
\* decides); the model computes the power to 60 bits and gives, as rounding
\* says, the f32 next below the exact power ("down"), the nearest one, or the
\* f32 next above it ("up"): the three are one value when the power is an f32.
PowRoundings == {"down", "nearest", "up"}

\* A wide value <<L, E>> is N * 2^E for the number N of the five limbs L of 12
\* bits, least first, 2^59 <= N < 2^60.  ExpCap caps E: a power that far out
\* stays out of the range of f32 whatever is still multiplied into it.
ExpCap == 65536
ClipE(E) == IF E > ExpCap THEN ExpCap ELSE IF E < -ExpCap THEN -ExpCap ELSE E

\* the limbs of the column sums c from column k on, with the carry coming in
RECURSIVE Carry(_, _, _)
Carry(c, k, carry) ==
    IF k > Len(c) THEN <<carry>>
    ELSE <<(c[k] + carry) % 4096>> \o Carry(c, k + 1, (c[k] + carry) \div 4096)

\* the ten limbs of the product of two numbers of five limbs
BigMul(a, b) ==
    Carry(<<a[1] * b[1],
            a[1] * b[2] + a[2] * b[1],
            a[1] * b[3] + a[2] * b[2] + a[3] * b[1],
            a[1] * b[4] + a[2] * b[3] + a[3] * b[2] + a[4] * b[1],
            a[1] * b[5] + a[2] * b[4] + a[3] * b[3] + a[4] * b[2] + a[5] * b[1],
            a[2] * b[5] + a[3] * b[4] + a[4] * b[3] + a[5] * b[2],
            a[3] * b[5] + a[4] * b[4] + a[5] * b[3],
            a[4] * b[5] + a[5] * b[4],
            a[5] * b[5]>>, 1, 0)

BigDouble(P) == Carry([k \in 1..Len(P) |-> 2 * P[k]], 1, 0)
BigHalf(P) ==
    [k \in 1..Len(P) |->
        (P[k] \div 2) + (IF k < Len(P) THEN (P[k + 1] % 2) * 2048 ELSE 0)]

\* a <= b for numbers of k limbs
RECURSIVE BigLe(_, _, _)
BigLe(a, b, k) ==
    IF k = 0 THEN TRUE
    ELSE IF a[k] # b[k] THEN a[k] < b[k]
    ELSE BigLe(a, b, k - 1)

\* the wide value above <<L, E>> by one unit of its last limb
WInc(L, E) ==
    IF L = <<4095, 4095, 4095, 4095, 4095>>
    THEN <<<<0, 0, 0, 0, 2048>>, ClipE(E + 1)>>
    ELSE <<SubSeq(Carry(L, 1, 1), 1, 5), E>>

\* the upper 60 bits of P, ten limbs and P >= 2^119, rounded down or up
WCut(P, E, up) ==
    IF up /\ SubSeq(P, 1, 5) # <<0, 0, 0, 0, 0>>
    THEN WInc(SubSeq(P, 6, 10), E)
    ELSE <<SubSeq(P, 6, 10), E>>

\* the product of two wide values, rounded down or up
WMul(a, b, up) ==
    IF BigMul(a[1], b[1])[10] >= 2048
    THEN WCut(BigMul(a[1], b[1]), ClipE(a[2] + b[2] + 60), up)
    ELSE WCut(BigDouble(BigMul(a[1], b[1])), ClipE(a[2] + b[2] + 59), up)

WSquare(a, up) == WMul(a, a, up)

\* a^n for n >= 1 by squarings, every product rounded the same way: acc is
\* a to the bits of n above bit k; it stays once its exponent is at the cap
RECURSIVE WPowBits(_, _, _, _, _)
WPowBits(acc, a, n, k, up) ==
    IF k < 0 \/ acc[2] >= ExpCap \/ acc[2] <= -ExpCap THEN acc
    ELSE IF (n \div Pow2(k)) % 2 = 0
    THEN WPowBits(WSquare(acc, up), a, n, k - 1, up)
    ELSE WPowBits(WMul(WSquare(acc, up), a, up), a, n, k - 1, up)
WPow(a, n, up) == WPowBits(a, a, n, BitLen(n) - 2, up)

\* a squared q times, or until its exponent is at the cap
RECURSIVE WSquareN(_, _, _)
WSquareN(a, q, up) ==
    IF q = 0 \/ a[2] >= ExpCap \/ a[2] <= -ExpCap THEN a
    ELSE WSquareN(WSquare(a, up), q - 1, up)

\* R with bit k set
SetBit(R, k) == [R EXCEPT ![(k \div 12) + 1] = @ + Pow2(k % 12)]

\* the largest R of 60 bits with R * R <= T, bit after bit from bit k down
RECURSIVE RootBits(_, _, _)
RootBits(R, T, k) ==
    IF k < 0 THEN R
    ELSE IF BigLe(BigMul(SetBit(R, k), SetBit(R, k)), T, 10)
    THEN RootBits(SetBit(R, k), T, k - 1)
    ELSE RootBits(R, T, k - 1)

WRoot(R, T, E, up) ==
    IF up /\ BigMul(R, R) # T THEN WInc(R, E) ELSE <<R, E>>

\* the square root of a wide value, rounded down or up: the root of
\* N * 2^60 when E is even, of N * 2^59 when it is odd
WSqrt(a, up) ==
    IF a[2] % 2 = 0
    THEN WRoot(RootBits(<<0, 0, 0, 0, 0>>, <<0, 0, 0, 0, 0>> \o a[1], 59),
               <<0, 0, 0, 0, 0>> \o a[1], (a[2] - 60) \div 2, up)
    ELSE WRoot(RootBits(<<0, 0, 0, 0, 0>>, BigHalf(<<0, 0, 0, 0, 0>> \o a[1]), 59),
               BigHalf(<<0, 0, 0, 0, 0>> \o a[1]), (a[2] - 59) \div 2, up)

\* the square root taken q times, or until it no longer moves: next to 1 a
\* wide value is its own rounded root
RECURSIVE WSqrtN(_, _, _)
WSqrtStep(a, r, q, up) == IF r = a THEN a ELSE WSqrtN(r, q - 1, up)
WSqrtN(a, q, up) == IF q = 0 THEN a ELSE WSqrtStep(a, WSqrt(a, up), q, up)

\* the largest Q of 60 bits with Q * N <= T, bit after bit from bit k down
RECURSIVE QuotBits(_, _, _, _)
QuotBits(Q, N, T, k) ==
    IF k < 0 THEN Q
    ELSE IF BigLe(BigMul(SetBit(Q, k), N), T, 10)
    THEN QuotBits(SetBit(Q, k), N, T, k - 1)
    ELSE QuotBits(Q, N, T, k - 1)

\* 1 / a rounded down or up: 2^119 / N, exact only for N = 2^59
WRecip(a, up) ==
    IF a[1] = <<0, 0, 0, 0, 2048>> THEN <<a[1], ClipE(-a[2] - 118)>>
    ELSE IF up
    THEN WInc(QuotBits(<<0, 0, 0, 0, 0>>, a[1],
                       <<0, 0, 0, 0, 0, 0, 0, 0, 0, 2048>>, 59),
              ClipE(-a[2] - 119))
    ELSE <<QuotBits(<<0, 0, 0, 0, 0>>, a[1],
                    <<0, 0, 0, 0, 0, 0, 0, 0, 0, 2048>>, 59),
           ClipE(-a[2] - 119)>>

\* the wide value of the f32 of magnitude m * 2^e, m of bl bits
Wide(m, e, bl) ==
    <<<<0, 0, 0, (m * Pow2(24 - bl)) % 4096, (m * Pow2(24 - bl)) \div 4096>>,
      e - (24 - bl) - 36>>

\* the f32 of sign sign whose magnitude is (T + fraction) * 2^E rounded toward
\* zero or, with away, away from it; T has 30 bits and the fraction is
\* nonzero iff sticky.  From 2^128 on it is an infinity, below 2^-150 a zero.
RoundDir(sign, T, E, sticky, away) ==
    IF E + 29 >= 128 THEN <<sign, 1000>>
    ELSE IF E + 30 <= -150 THEN ZeroOf(sign)
    ELSE IF E + 6 > -149
    THEN Finish(sign,
                (T \div 64) + (IF away /\ (T % 64 # 0 \/ sticky) THEN 1 ELSE 0),
                E + 6)
    ELSE Finish(sign,
                (T \div Pow2(-149 - E))
                  + (IF away /\ (T % Pow2(-149 - E) # 0 \/ sticky) THEN 1 ELSE 0),
                -149)

\* the f32 of a wide value by the rounding: its upper 30 bits, the rest sticky
WToF(sign, a, toward) ==
    IF toward = "nearest"
    THEN RoundF(sign, a[1][5] * 262144 + a[1][4] * 64 + (a[1][3] \div 64),
                a[2] + 30,
                a[1][3] % 64 # 0 \/ a[1][2] # 0 \/ a[1][1] # 0)
    ELSE RoundDir(sign, a[1][5] * 262144 + a[1][4] * 64 + (a[1][3] \div 64),
                  a[2] + 30,
                  a[1][3] % 64 # 0 \/ a[1][2] # 0 \/ a[1][1] # 0,
                  toward = "away")

\* w^(p * 2^q) for a wide w and an odd p >= 1, every step rounded down or up
WPowDyadic(w, p, q, up) ==
    IF q < 0 THEN WPow(WSqrtN(w, -q, up), p, up)
    ELSE WSquareN(WPow(w, p, up), q, up)

\* w^y for y = +-p * 2^q finite and nonzero, rounded down or up
WPowF(w, y, up) ==
    IF y[1] > 0 THEN WPowDyadic(w, y[1], y[2], up)
    ELSE WRecip(WPowDyadic(w, -y[1], y[2], ~up), up)

\* sign * m^y for a finite magnitude m > 0 and a finite y # 0; toward is the
\* rounding of the magnitude: "zero" (down), "nearest" or "away" (up)
PowMag(sign, m, y, toward) ==
    WToF(sign, WPowF(Wide(m[1], m[2], BitLen(m[1])), y, toward = "away"),
         toward)

\* the rounding of the magnitude that gives the rounding of the signed power
MagRounding(sign, rounding) ==
    IF rounding = "nearest" THEN "nearest"
    ELSE IF (rounding = "up") = (sign > 0) THEN "away" ELSE "zero"

IsOddInt(y) == IsFinite(y) /\ y[1] # 0 /\ y[2] = 0
IsInt(y) == IsFinite(y) /\ (y[1] = 0 \/ y[2] >= 0)

\* x.powf(y), the special cases as C's powf has them
powf(x, y, rounding) ==
    IF IsZero(y) THEN One
    ELSE IF x = One THEN One
    ELSE IF IsNaN(x) \/ IsNaN(y) THEN NaN
    ELSE IF ~IsFinite(y)
    THEN (IF FAbs(x) = One THEN One
          ELSE IF FLt(FAbs(x), One) = (y[1] > 0) THEN Zero ELSE PosInf)
    ELSE IF IsZero(x)
    THEN (IF y[1] > 0 THEN (IF IsOddInt(y) THEN x ELSE Zero)
          ELSE <<IF IsOddInt(y) THEN SignOf(x) ELSE 1, 1000>>)
    ELSE IF ~IsFinite(x)
    THEN (IF y[1] > 0 THEN <<IF IsOddInt(y) THEN x[1] ELSE 1, 1000>>
          ELSE ZeroOf(IF IsOddInt(y) THEN x[1] ELSE 1))
    ELSE IF x[1] < 0 /\ ~IsInt(y) THEN NaN
    ELSE IF FAbs(x) = One THEN (IF IsOddInt(y) THEN x ELSE One)
    ELSE PowMag(IF x[1] < 0 /\ IsOddInt(y) THEN -1 ELSE 1, FAbs(x), y,
                MagRounding(IF x[1] < 0 /\ IsOddInt(y) THEN -1 ELSE 1, rounding))

\* the background of a ray that hits nothing
BackgroundColor == Color(9, 20, 55)

\* the factor of the emission
EmissionBoost == Frac(18, 10)

\* the test of one scanned result: does it become the best hit
IsCloser_first_hit(t, zbuf) == t.is_intersecting /\ zbuf = PosInf
IsCloser_or_equal(t, zbuf) == t.is_intersecting /\ FLe(t.distance, zbuf)
IsCloser(t, zbuf) == t.is_intersecting /\ FLt(t.distance, zbuf)

\* the test after the scan: was nothing hit
NoHit_never(best) == FALSE
NoHit(best) == ~best.is_intersecting

\* The lighting of cast_ray (main.rs:53-82) is a chain of operators, each
\* handing the locals computed so far to the next.

\* the sum returned, or the panic of the texture lookup
LightingSum(diffuse_intensity, specular_intensity, sampled, base_diffuse, diffuse, specular, emission) ==
    [diffuse_intensity |-> diffuse_intensity,
     base_diffuse |-> base_diffuse,
     tex_color |-> sampled,
     diffuse |-> diffuse,
     specular_intensity |-> specular_intensity,
     specular |-> specular,
     emission |-> emission,
     result |-> IF sampled = Panic THEN Panic
                ELSE ColorAdd(ColorAdd(diffuse, specular), emission)]

\* the texture term put in the place of the base diffuse term
LightingColors_texture_replaces(best, lt, diffuse_intensity, specular_intensity, sampled, base_diffuse) ==
    LightingSum(diffuse_intensity, specular_intensity, sampled, base_diffuse,
        IF sampled = None \/ sampled = Panic THEN base_diffuse
        ELSE ColorMul(ColorMul(ColorMul(sampled, best.material.albedo[1]),
                               diffuse_intensity),
                      lt.intensity),
        ColorMul(ColorMul(ColorMul(lt.color, best.material.albedo[2]),
                          specular_intensity),
                 lt.intensity),
        ColorMul(best.material.emission, EmissionBoost))

\* diffuse after the texture term, specular and emission
LightingColors(best, lt, diffuse_intensity, specular_intensity, sampled, base_diffuse) ==
    LightingSum(diffuse_intensity, specular_intensity, sampled, base_diffuse,
        IF sampled = None \/ sampled = Panic THEN base_diffuse
        ELSE ColorAddAssign(base_diffuse,
                 ColorMul(ColorMul(ColorMul(sampled, best.material.albedo[1]),
                                   diffuse_intensity),
                          lt.intensity)),
        ColorMul(ColorMul(ColorMul(lt.color, best.material.albedo[2]),
                          specular_intensity),
                 lt.intensity),
        ColorMul(best.material.emission, EmissionBoost))

\* the base diffuse term scaled once by the product of its weights
LightingTerms_single_product(best, lt, diffuse_intensity, specular_intensity) ==
    LightingColors(best, lt, diffuse_intensity, specular_intensity,
        IF best.material.texture = None THEN None
        ELSE tex_color(best.material.texture, best.u, best.v),
        ColorMul(best.material.diffuse,
                 FMul(FMul(best.material.albedo[1], diffuse_intensity),
                      lt.intensity)))

\* the base diffuse term and the texel
LightingTerms(best, lt, diffuse_intensity, specular_intensity) ==
    LightingColors(best, lt, diffuse_intensity, specular_intensity,
        IF best.material.texture = None THEN None
        ELSE tex_color(best.material.texture, best.u, best.v),
        ColorMul(ColorMul(ColorMul(best.material.diffuse,
                                   best.material.albedo[1]),
                          diffuse_intensity),
                 lt.intensity))

\* reflect_dir and the two intensities
\* dot.max(0.0).min(1.0) of the diffuse term and dot.max(0.0) of the specular
\* term, on every target
Clamped(n_dot_l, v_dot_r) ==
    {<<FMin(FMax(n_dot_l, Zero, tie), One, tie), FMax(v_dot_r, Zero, tie)>> :
        tie \in ZeroTies}

\* <<diffuse_intensity, specular_intensity>>: the set of what they can be
Intensities(n_dot_l, v_dot_r, specular) ==
    UNION {{<<c[1], powf(c[2], specular, rounding)>> :
               rounding \in PowRoundings} : c \in Clamped(n_dot_l, v_dot_r)}

LightingDirs(best, lt, light_dir, view_dir) ==
    {LightingTerms(best, lt, i[1], i[2]) :
        i \in Intensities(VDot(best.normal, light_dir),
                          VDot(view_dir, reflect(VNeg(light_dir), best.normal)),
                          best.material.specular)}

\* the locals of cast_ray after the scan, for the best hit: the set of what
\* they can be
Lighting(best, origin, lt) ==
    LightingDirs(best, lt,
                 normalize(VSub(lt.position, best.point)),
                 normalize(VSub(origin, best.point)))

(***************************************************************************)
(* Bounds of the model                                                     *)
(***************************************************************************)
\* ray origins have coordinates i/2 for i in -MaxCoord..MaxCoord
MaxCoord == 2
\* box extents are 1..MaxSide
MaxSide == 2
\* textures are w x h texels for w, h in 1..MaxTexDim
MaxTexDim == 3

Coords == {Frac(i, 2) : i \in -MaxCoord..MaxCoord}
Points == {Vec3(x, y, z) : x \in Coords, y \in Coords, z \in Coords}
Sides == {F(i) : i \in 1..MaxSide}

\* ray directions: every non-zero vector with components in -1..1 (zero
\* components included, so that the slab divisions by zero happen) and an
\* axis direction of length 2 on every axis (a direction need not be
\* normalized)
UnitComps == {F(-1), F(0), F(1)}
Directions ==
    ({Vec3(x, y, z) : x \in UnitComps, y \in UnitComps, z \in UnitComps}
        \ {Vec3(Zero, Zero, Zero)})
    \cup {Vec3(F(2), Zero, Zero), Vec3(Zero, F(-2), Zero),
          Vec3(Zero, Zero, F(2))}

\* rays whose crossings are not f32 values, so that the hit point is rounded:
\* toward an edge, a corner or a face of the boxes from outside, from inside,
\* and past them
SlantedRays ==
    {<<Vec3(F(-4), Frac(-9, 4), Zero), Vec3(Frac(13, 2), Frac(13, 4), Zero)>>,
     <<Vec3(F(-4), Frac(9, 4), Zero), Vec3(Frac(13, 2), Frac(-13, 4), Zero)>>,
     <<Vec3(F(-4), Zero, Frac(-9, 4)), Vec3(Frac(13, 2), Zero, Frac(13, 4))>>,
     <<Vec3(F(-4), Frac(-11, 4), Zero), Vec3(Frac(13, 2), Frac(13, 4), Zero)>>,
     <<Vec3(F(-1), F(-1), F(-1)), Vec3(F(3), F(3), F(3))>>,
     <<Vec3(F(4), F(3), F(2)), Vec3(F(-7), F(-5), F(-3))>>,
     <<Vec3(Zero, F(-3), Frac(1, 4)), Vec3(Frac(1, 10), F(7), Frac(1, 5))>>,
     <<Vec3(Frac(1, 4), Zero, F(3)), Vec3(Frac(-1, 10), Frac(3, 10), F(-7))>>,
     <<Vec3(Frac(1, 10), Frac(-1, 5), Frac(3, 10)), Vec3(F(3), F(-7), F(5))>>,
     <<Vec3(Frac(1, 4), Frac(1, 4), Zero), Vec3(F(-3), F(5), F(-7))>>,
     <<Vec3(F(3), Frac(1, 3), Zero), Vec3(F(-7), Frac(-1, 3), Frac(1, 7))>>,
     <<Vec3(F(-4), Frac(-9, 4), Zero), Vec3(Frac(-13, 2), Frac(13, 4), Zero)>>}

\* rays with -0.0 among the components of the direction, where the slab
\* divisions give the infinities of the other sign: past the boxes, from
\* outside toward them and from inside
NegZeroRays ==
    {<<Vec3(F(2), Zero, F(-3)), Vec3(NegZero, Zero, One)>>,
     <<Vec3(Zero, Zero, F(-3)), Vec3(One, NegZero, NegZero)>>,
     <<Vec3(F(2), Zero, F(-3)), Vec3(NegZero, NegZero, One)>>,
     <<Vec3(Zero, Zero, F(-3)), Vec3(NegZero, NegZero, One)>>,
     <<Vec3(Frac(1, 4), Zero, Zero), Vec3(NegZero, Zero, One)>>,
     <<Vec3(Frac(1, 4), Frac(-1, 4), Zero), Vec3(F(-1), NegZero, NegZero)>>,
     <<Vec3(Frac(1, 2), NegZero, Zero), Vec3(NegZero, One, Zero)>>}

BoxCenters == {Vec3(Zero, Zero, Zero), Vec3(Frac(1, 2), Zero, Frac(-1, 2))}

TestCubes == {Cube(c, s, MaterialBlack) : c \in BoxCenters, s \in Sides}
TestPrisms ==
    {RectangularPrism(Vec3(Zero, Zero, Zero), w, h, d, MaterialBlack) :
        w \in {F(1), F(MaxSide)}, h \in {F(1), F(MaxSide)},
        d \in {F(1), F(MaxSide)}}

\* color channels and scalars tried
Channels == {0, 1, 5, 100, 155, 180, 255}
Colors == {Color(r, g, b) : r \in Channels, g \in Channels, b \in Channels}
OtherChannels == {0, 100, 156, 255}
OtherColors ==
    {Color(r, g, b) : r \in OtherChannels, g \in OtherChannels,
                      b \in OtherChannels}
Scalars ==
    {F(-2), Frac(-1, 2), NegZero, Zero, Frac(1, 4), Frac(1, 2), Frac(65, 100),
     Frac(7, 10), One, Frac(13, 10), Frac(3, 2), Frac(9, 5), Two, F(300),
     PosInf, NegInf, NaN}

\* RGBA bytes of a w x h texture: data.len() = w * h * 4, every texel distinct
TextureData(w, h) == Bytes(w * h * 4, 10, 7)

\* the textures tried: the small ones, one of ten columns, on which 0.7 * 10
\* is not a whole number before it is rounded, and one whose last column,
\* 16777219, is not an f32
Textures ==
    {Texture(TextureData(w, h), w, h) : w \in 1..MaxTexDim, h \in 1..MaxTexDim}
        \cup {Texture(TextureData(10, 1), 10, 1),
              Texture(TextureData(16777220, 1), 16777220, 1)}
TexCoords ==
    {F(-1), Frac(-1, 4), NegZero, Zero, Frac(1, 4), Frac(1, 2), Frac(7, 10),
     Frac(3, 4),
     One, Frac(5, 4), Two, PosInf, NegInf, NaN}

\* the scene of cast_ray: at most MaxCubes cubes and MaxRects prisms
MaxCubes == 2
MaxRects == 2

\* materials: the red of the spec's end-to-end example, the wood of
\* main.rs:128-134 with a small texture, and the emissive one of the windows
\* (main.rs:177-183)
Red == Material(Color(255, 0, 0), One, <<One, Zero>>, None, Color(0, 0, 0))
Wood ==
    Material(Color(101, 62, 4), F(20), <<Frac(6, 10), Frac(2, 10)>>,
             Texture(TextureData(2, 2), 2, 2), Color(0, 0, 0))
Glow ==
    Material(Color(253, 237, 191), Zero, <<One, Zero>>, None,
             ColorMul(Color(253, 237, 191), Two))

SceneCubes ==
    {Cube(Vec3(Zero, Zero, Zero), One, Red),
     Cube(Vec3(Zero, Zero, Zero), Two, Wood)}
SceneRects ==
    {RectangularPrism(Vec3(Zero, Zero, Zero), Two, One, Two, Glow),
     RectangularPrism(Vec3(Zero, Zero, Zero), One, One, One, Wood),
     RectangularPrism(Vec3(Two, Zero, Zero), One, Two, One, Red)}

SeqsUpTo(S, n) == UNION {[1..k -> S] : k \in 0..n}

\* the rays cast: <<origin, direction>>; the last two come down onto the top
\* faces, which face the light, one straight under it and one at a slant
Rays ==
    {<<Vec3(Zero, Zero, F(5)), Vec3(Zero, Zero, F(-1))>>,
     <<Vec3(Zero, Zero, F(5)), Vec3(Zero, Zero, One)>>,
     <<Vec3(Zero, Zero, Zero), Vec3(One, Zero, Zero)>>,
     <<Vec3(F(4), Zero, Zero), Vec3(F(-1), Zero, Zero)>>,
     <<Vec3(Zero, F(3), F(3)), Vec3(Zero, F(-1), F(-1))>>,
     <<Vec3(Frac(3, 10), Frac(7, 10), F(5)),
       Vec3(Frac(-1, 20), Frac(-1, 10), F(-1))>>,
     <<Vec3(F(-4), Frac(-9, 4), Zero), Vec3(Frac(13, 2), Frac(13, 4), Zero)>>,
     <<Vec3(Zero, F(3), Frac(1, 10)), Vec3(Zero, F(-1), Zero)>>,
     <<Vec3(Frac(1, 2), F(3), One),
       Vec3(Frac(-1, 10), F(-1), Frac(-3, 10))>>}

\* the lights render hands to cast_ray: the light main builds
\* (main.rs:530-534) with the intensity of the day, 1.7, or of the night, 0.2
\* (main.rs:535, 560-569)
Lights ==
    {Light(Vec3(Zero, Frac(51, 10), Frac(1, 10)), Color(255, 236, 183), i) :
        i \in {Frac(17, 10), Frac(2, 10)}}

(***************************************************************************)
(* State                                                                   *)
(***************************************************************************)
VARIABLES
    pc,             \* position of the modelled call
    ray_origin,     \* the ray
    ray_direction,
    solid,          \* the receiver of ray_intersect: <<"cube", c>> or <<"prism", p>>
    locals,         \* min, max, t_min, t_max, t_near_val, t_far_val of that call
    tmp,            \* the Intersect returned by the last ray_intersect
    color_self,     \* operands and result of the Color operators
    color_other,
    scalar,
    color_out,
    texture,        \* the texture sampled, the coordinates and the texel read
    tex_u,
    tex_v,
    tex_read,
    cubes,          \* the arguments of cast_ray
    rectangles,
    light,
    next_obj,       \* position of the iterator over cubes, then rectangles
    results,        \* what the calls of ray_intersect returned so far, in order
    zbuffer,        \* the locals of cast_ray
    intersect,
    shading,        \* the lighting terms, once evaluated
    pixel_color,    \* what cast_ray returned
    light_on,       \* the locals of main's loop
    l_presses,      \* how often is_key_pressed(Key::L) has been true
    frame,          \* iterations of main's loop begun
    pixel,          \* position of render's loops over the framebuffer
    pass_light      \* the intensity each pixel of the pass at hand was shaded with

vars == <<pc, ray_origin, ray_direction, solid, locals, tmp,
          color_self, color_other, scalar, color_out,
          texture, tex_u, tex_v, tex_read,
          cubes, rectangles, light, next_obj, results, zbuffer, intersect,
          shading, pixel_color,
          light_on, l_presses, frame, pixel, pass_light>>

castVars == <<cubes, rectangles, light, next_obj, results, zbuffer,
              intersect, shading, pixel_color>>

rayVars == <<ray_origin, ray_direction, solid, locals, tmp>>
colorVars == <<color_self, color_other, scalar, color_out>>
texVars == <<texture, tex_u, tex_v, tex_read>>
mainVars == <<light_on, l_presses, frame, pixel, pass_light>>

\* the variables a specification does not use
NoRay ==
    /\ ray_origin = None
    /\ ray_direction = None
    /\ solid = None
    /\ locals = None
    /\ tmp = None
NoColor ==
    /\ color_self = None
    /\ color_other = None
    /\ scalar = None
    /\ color_out = None
NoTexture ==
    /\ texture = None
    /\ tex_u = None
    /\ tex_v = None
    /\ tex_read = None
NoMain ==
    /\ light_on = None
    /\ l_presses = None
    /\ frame = None
    /\ pixel = None
    /\ pass_light = None
NoCast ==
    /\ cubes = None
    /\ rectangles = None
    /\ light = None
    /\ next_obj = None
    /\ results = None
    /\ zbuffer = None
    /\ intersect = None
    /\ shading = None
    /\ pixel_color = None

(***************************************************************************)
(* ray_intersect as a function of one solid and one ray                    *)
(***************************************************************************)
InitBox ==
    /\ NoMain
    /\ pc = "call"
    /\ \/ /\ ray_origin \in Points
          /\ ray_direction \in Directions
       \/ \E r \in SlantedRays \cup NegZeroRays :
            /\ ray_origin = r[1]
            /\ ray_direction = r[2]
    /\ solid \in ({"cube"} \X TestCubes) \cup ({"prism"} \X TestPrisms)
    /\ locals = None
    /\ tmp = IntersectEmpty
    /\ NoColor
    /\ NoTexture
    /\ NoCast

CallCubeRayIntersect ==
    /\ UNCHANGED mainVars
    /\ pc = "call"
    /\ solid[1] = "cube"
    /\ locals' \in CubeSlab(solid[2], ray_origin, ray_direction)
    /\ tmp' = CubeAfterSlab(solid[2], locals', ray_origin, ray_direction)
    /\ pc' = "returned"
    /\ UNCHANGED <<ray_origin, ray_direction, solid, colorVars, texVars, castVars>>

CallPrismRayIntersect ==
    /\ UNCHANGED mainVars
    /\ pc = "call"
    /\ solid[1] = "prism"
    /\ locals' \in PrismSlab(solid[2], ray_origin, ray_direction)
    /\ tmp' = PrismAfterSlab(solid[2], locals', ray_origin, ray_direction)
    /\ pc' = "returned"
    /\ UNCHANGED <<ray_origin, ray_direction, solid, colorVars, texVars, castVars>>

NextBox == CallCubeRayIntersect \/ CallPrismRayIntersect

SpecBox == InitBox /\ [][NextBox]_vars

(***************************************************************************)
(* The Color operators as functions of their operands                      *)
(***************************************************************************)
InitColor ==
    /\ NoMain
    /\ pc = "color"
    /\ color_self \in Colors
    /\ color_other = None
    /\ scalar = None
    /\ color_out = None
    /\ NoRay
    /\ NoTexture
    /\ NoCast

\* color_out = color_self + other
CallAdd ==
    /\ UNCHANGED mainVars
    /\ pc = "color"
    /\ \E other \in OtherColors :
        /\ color_other' = other
        /\ color_out' = ColorAdd(color_self, other)
    /\ pc' = "added"
    /\ UNCHANGED <<color_self, scalar, rayVars, texVars, castVars>>

\* color_self += other
CallAddAssign ==
    /\ UNCHANGED mainVars
    /\ pc = "color"
    /\ \E other \in OtherColors :
        /\ color_other' = other
        /\ color_self' = ColorAddAssign(color_self, other)
    /\ pc' = "add_assigned"
    /\ UNCHANGED <<color_out, scalar, rayVars, texVars, castVars>>

\* color_out = color_self * s
CallMul ==
    /\ UNCHANGED mainVars
    /\ pc = "color"
    /\ \E s \in Scalars :
        /\ scalar' = s
        /\ color_out' = ColorMul(color_self, s)
    /\ pc' = "scaled"
    /\ UNCHANGED <<color_self, color_other, rayVars, texVars, castVars>>

NextColor == CallAdd \/ CallAddAssign \/ CallMul

SpecColor == InitColor /\ [][NextColor]_vars

(***************************************************************************)
(* The texture lookup of cast_ray as a function of the texture and (u, v)  *)
(***************************************************************************)
InitTexture ==
    /\ NoMain
    /\ pc = "texture"
    /\ texture \in Textures
    /\ tex_u \in TexCoords
    /\ tex_v \in TexCoords
    /\ tex_read = None
    /\ NoRay
    /\ NoColor
    /\ NoCast

SampleTexture ==
    /\ UNCHANGED mainVars
    /\ pc = "texture"
    /\ tex_read' = tex_color(texture, tex_u, tex_v)
    /\ pc' = "sampled"
    /\ UNCHANGED <<texture, tex_u, tex_v, rayVars, colorVars, castVars>>

NextTexture == SampleTexture

SpecTexture == InitTexture /\ [][NextTexture]_vars

(***************************************************************************)
(* cast_ray (main.rs:28-83): the scan over the solids, then the return     *)
(***************************************************************************)
Init ==
    /\ NoMain
    /\ pc = "scan"
    /\ \E r \in Rays :
        /\ ray_origin = r[1]
        /\ ray_direction = r[2]
    /\ cubes \in SeqsUpTo(SceneCubes, MaxCubes)
    /\ rectangles \in SeqsUpTo(SceneRects, MaxRects)
    /\ light \in Lights
    /\ next_obj = 1
    /\ results = <<>>
    /\ zbuffer = PosInf
    /\ intersect = IntersectEmpty
    /\ tmp = None
    /\ shading = None
    /\ pixel_color = None
    /\ solid = None
    /\ locals = None
    /\ NoColor
    /\ NoTexture

NumObjects == Len(cubes) + Len(rectangles)

\* the body of the for loop, for the result t of the solid at hand
ScanBody(t) ==
    /\ UNCHANGED mainVars
    /\ tmp' = t
    /\ results' = Append(results, t)
    /\ IF IsCloser(t, zbuffer)
       THEN /\ zbuffer' = t.distance
            /\ intersect' = t
       ELSE UNCHANGED <<zbuffer, intersect>>
    /\ next_obj' = next_obj + 1
    /\ UNCHANGED <<pc, ray_origin, ray_direction, solid, locals, cubes,
                   rectangles, light, shading, pixel_color, colorVars, texVars>>

\* one iteration over an element of cubes
ScanCube ==
    /\ pc = "scan"
    /\ next_obj <= Len(cubes)
    /\ \E t \in CubeRayIntersect(cubes[next_obj], ray_origin, ray_direction) :
        ScanBody(t)

\* one iteration over an element of rectangles, the cubes being exhausted
ScanRectangle ==
    /\ pc = "scan"
    /\ next_obj > Len(cubes)
    /\ next_obj <= NumObjects
    /\ \E t \in PrismRayIntersect(rectangles[next_obj - Len(cubes)],
                                  ray_origin, ray_direction) :
        ScanBody(t)

\* the early return of the background color
ReturnBackground ==
    /\ UNCHANGED mainVars
    /\ pc = "scan"
    /\ next_obj > NumObjects
    /\ NoHit(intersect)
    /\ pixel_color' = BackgroundColor
    /\ pc' = "done"
    /\ UNCHANGED <<rayVars, cubes, rectangles, light, next_obj, results,
                   zbuffer, intersect, shading, colorVars, texVars>>

\* the lighting of the best hit and the return of its color
ShadeHit ==
    /\ UNCHANGED mainVars
    /\ pc = "scan"
    /\ next_obj > NumObjects
    /\ ~NoHit(intersect)
    /\ shading' \in Lighting(intersect, ray_origin, light)
    /\ pixel_color' = shading'.result
    /\ pc' = "done"
    /\ UNCHANGED <<rayVars, cubes, rectangles, light, next_obj, results,
                   zbuffer, intersect, colorVars, texVars>>

Next == ScanCube \/ ScanRectangle \/ ReturnBackground \/ ShadeHit

Spec == Init /\ [][Next]_vars

(***************************************************************************)
(* Properties of ray_intersect (checked under SpecBox)                     *)
(***************************************************************************)
Axes == {"x", "y", "z"}
Comp(v, a) == IF a = "x" THEN v.x ELSE IF a = "y" THEN v.y ELSE v.z
AxisVec(a, sign) ==
    Vec3(IF a = "x" THEN F(sign) ELSE Zero,
         IF a = "y" THEN F(sign) ELSE Zero,
         IF a = "z" THEN F(sign) ELSE Zero)

\* the box under test: its center and its half extents, from its fields
SolidCenter == solid[2].center
SolidHalf ==
    IF solid[1] = "cube"
    THEN LET h == FDiv(solid[2].side_length, Two) IN Vec3(h, h, h)
    ELSE Vec3(FDiv(solid[2].width, Two), FDiv(solid[2].height, Two),
              FDiv(solid[2].depth, Two))

Returned == pc = "returned"

StrictlyInside ==
    \A a \in Axes :
        FLt(FAbs(FSub(Comp(ray_origin, a), Comp(SolidCenter, a))),
            Comp(SolidHalf, a))

\* parameter at which the ray leaves the slab of axis a (direction # 0 there):
\* the crossing of the plane the direction points to
FarCrossing(a) ==
    LET d == Comp(ray_direction, a)
        plane == IF FGt(d, Zero)
                 THEN FAdd(Comp(SolidCenter, a), Comp(SolidHalf, a))
                 ELSE FSub(Comp(SolidCenter, a), Comp(SolidHalf, a))
    IN  FDiv(FSub(plane, Comp(ray_origin, a)), d)

MovingAxes == {a \in Axes : ~IsZero(Comp(ray_direction, a))}

\* the smallest per-axis far crossing
ExitT ==
    CHOOSE t \in {FarCrossing(a) : a \in MovingAxes} :
        \A a \in MovingAxes : FLe(t, FarCrossing(a))

\* C4: a ray whose origin is strictly inside the box (direction non-zero)
\* intersects, its distance is t_far, the smallest per-axis far crossing,
\* and not t_near, and the hit point is origin + direction * t_far.
C4_InsideHitsExit ==
    (Returned /\ StrictlyInside) =>
        LET s == locals
            exit == ExitT
        IN  /\ tmp.is_intersecting
            /\ tmp.distance = exit
            /\ tmp.distance = s.t_far_val
            /\ tmp.distance # s.t_near_val
            /\ tmp.point = VAdd(ray_origin, VScale(ray_direction, exit))

\* the C4 case: an off-center interior origin, a diagonal direction, answered
C4_Witness ==
    /\ Returned
    /\ StrictlyInside
    /\ ray_origin # SolidCenter
    /\ Cardinality(MovingAxes) >= 2
    /\ tmp.is_intersecting
    /\ FGt(tmp.distance, Zero)

\* the ray travels along axis a toward the center of the face facing it
FacesCenterOfFace(a) ==
    /\ MovingAxes = {a}
    /\ \A b \in Axes \ {a} : Comp(ray_origin, b) = Comp(SolidCenter, b)
    /\ \/ /\ FGt(Comp(ray_direction, a), Zero)
          /\ FLt(Comp(ray_origin, a),
                 FSub(Comp(SolidCenter, a), Comp(SolidHalf, a)))
       \/ /\ FLt(Comp(ray_direction, a), Zero)
          /\ FGt(Comp(ray_origin, a),
                 FAdd(Comp(SolidCenter, a), Comp(SolidHalf, a)))

\* distance from the origin to the plane of the face, along axis a
GapToFace(a) ==
    FSub(FAbs(FSub(Comp(ray_origin, a), Comp(SolidCenter, a))),
         Comp(SolidHalf, a))

\* the outward unit vector of the face that faces a ray travelling along a
OutwardNormal(a) ==
    AxisVec(a, IF FGt(Comp(ray_direction, a), Zero) THEN -1 ELSE 1)

\* C8 as claimed: for a ray from outside along one axis toward the center of
\* the facing face, the normal is that face's outward unit vector and the
\* distance is the distance from the origin to the plane of that face.
C8_DistanceIsGapToFace ==
    \A a \in Axes :
        (Returned /\ FacesCenterOfFace(a)) =>
            /\ tmp.is_intersecting
            /\ tmp.normal = OutwardNormal(a)
            /\ tmp.distance = GapToFace(a)

\* C8 amended: for a ray from outside along one axis toward the center of the
\* facing face, the normal is that face's outward unit vector and the distance
\* is the ray parameter of the crossing: the distance from the origin to the
\* plane of that face divided by the length of the direction, which is that
\* distance itself when the direction has length 1.
C8_FaceCenterNormalAndDistance ==
    \A a \in Axes :
        (Returned /\ FacesCenterOfFace(a)) =>
            /\ tmp.is_intersecting
            /\ tmp.normal = OutwardNormal(a)
            /\ tmp.distance = FDiv(GapToFace(a), FAbs(Comp(ray_direction, a)))
            /\ FMul(tmp.distance, FAbs(Comp(ray_direction, a))) = GapToFace(a)
            /\ (FAbs(Comp(ray_direction, a)) = One
                    => tmp.distance = GapToFace(a))

\* the C8 case: a ray of length 2 down the Y axis onto the +Y face of a prism,
\* answered with half the distance to the plane of that face
C8_Witness ==
    /\ Returned
    /\ solid[1] = "prism"
    /\ FacesCenterOfFace("y")
    /\ ray_direction = Vec3(Zero, F(-2), Zero)
    /\ tmp.normal = Vec3(Zero, One, Zero)
    /\ FGt(tmp.distance, Zero)
    /\ FMul(tmp.distance, Two) = GapToFace("y")
    /\ tmp.distance # GapToFace("y")

\* C9: ray_intersect returns the empty Intersect exactly when
\* t_near > t_far or t_far < 0, and an intersecting result has distance >= 0.
C9_EmptyIffMissAndNonNegative ==
    Returned =>
        LET s == locals
        IN  /\ (tmp = IntersectEmpty) <=>
                   (FGt(s.t_near_val, s.t_far_val) \/ FLt(s.t_far_val, Zero))
            /\ tmp.is_intersecting <=> tmp # IntersectEmpty
            /\ tmp.is_intersecting => FGe(tmp.distance, Zero)

\* the C9 case: a box wholly behind the ray (t_near <= t_far < 0) is a miss
C9_Witness ==
    /\ Returned
    /\ tmp = IntersectEmpty
    /\ FLe(locals.t_near_val, locals.t_far_val)
    /\ FLt(locals.t_far_val, Zero)

SixNormals == {AxisVec(a, sg) : a \in Axes, sg \in {-1, 1}}

\* |hit - center| - half_extent on axis a, for the returned hit
FaceDiff(a) ==
    FSub(FAbs(FSub(Comp(tmp.point, a), Comp(SolidCenter, a))),
         Comp(SolidHalf, a))

\* the axis of largest FaceDiff, X before Y before Z on ties
LargestAxis ==
    LET dx == FaceDiff("x")
        dy == FaceDiff("y")
        dz == FaceDiff("z")
    IN  IF FGe(dx, dy) /\ FGe(dx, dz) THEN "x"
        ELSE IF FGe(dy, dx) /\ FGe(dy, dz) THEN "y"
        ELSE "z"

\* C10: the normal of an intersecting result is one of the six unit axis
\* vectors, on the axis of largest |hit - center| - half_extent (ties X, then
\* Y, then Z), positive when hit > center on that axis and negative otherwise.
C10_NormalIsLargestAxis ==
    (Returned /\ tmp.is_intersecting) =>
        LET a == LargestAxis
        IN  /\ tmp.normal \in SixNormals
            /\ tmp.normal =
                   AxisVec(a, IF FGt(Comp(tmp.point, a), Comp(SolidCenter, a))
                              THEN 1 ELSE -1)

\* the C10 case: a hit on an edge, where Y and Z tie for the largest value
\* and X is smaller, is given the Y normal
C10_Witness ==
    /\ Returned
    /\ tmp.is_intersecting
    /\ FaceDiff("y") = FaceDiff("z")
    /\ FLt(FaceDiff("x"), FaceDiff("y"))
    /\ tmp.normal \in {AxisVec("y", 1), AxisVec("y", -1)}

(***************************************************************************)
(* Properties of Color (checked under SpecColor)                           *)
(***************************************************************************)
Min255(i) == IF i > 255 THEN 255 ELSE i

SaturatedSum(a, b) ==
    Color(Min255(a.r + b.r), Min255(a.g + b.g), Min255(a.b + b.b))

\* C5: + and += saturate per channel: each channel of a + b, and of a after
\* a += b, is min(255, a.channel + b.channel); it never wraps modulo 256.
C5_AddSaturates ==
    [][/\ pc' = "added" =>
            color_out' = SaturatedSum(color_self, color_other')
       /\ pc' = "add_assigned" =>
            color_self' = SaturatedSum(color_self, color_other')]_vars

\* the C5 case: a += b has run with a channel sum above 255, which is 255
C5_Witness ==
    /\ pc = "add_assigned"
    /\ color_other.r = 156
    /\ color_self.r = 255
    /\ color_self.g < 255

\* channel c scaled by the scalar, before the clamp
Scaled(c) == FMul(F(c), scalar)

ChannelClamped(c, out) ==
    /\ out \in 0..255
    /\ IsZero(scalar) => out = 0
    /\ FLt(scalar, Zero) => out = 0
    /\ FGt(Scaled(c), F(255)) => out = 255
    /\ (FGe(Scaled(c), Zero) /\ FLe(Scaled(c), F(255))) =>
            (FEq(F(out), Scaled(c))
                \/ (FLt(F(out), Scaled(c)) /\ FLt(Scaled(c), F(out + 1))))

\* C6: Color * f32 clamps each channel to 0..255: a scalar of 0.0 gives
\* (0,0,0), a negative scalar gives 0 on every channel, a product above 255
\* gives exactly 255, and a product within 0..255 is truncated to an integer.
C6_MulClamps ==
    pc = "scaled" =>
        /\ ChannelClamped(color_self.r, color_out.r)
        /\ ChannelClamped(color_self.g, color_out.g)
        /\ ChannelClamped(color_self.b, color_out.b)

\* the C6 case: a full channel scaled by a negative scalar came out as 0
C6_Witness ==
    /\ pc = "scaled"
    /\ FLt(scalar, Zero)
    /\ IsFinite(scalar)
    /\ color_self.r = 255
    /\ color_out = Color(0, 0, 0)

(***************************************************************************)
(* Properties of the texture lookup (checked under SpecTexture)            *)
(***************************************************************************)
\* C7: for a texture of width, height >= 1 with data of width*height*4 bytes
\* and any (u, v), 0 <= texture_x <= width-1 and 0 <= texture_y <= height-1,
\* the 4-byte slice is inside data (no panic); (0,0) reads byte offset 0 and
\* (1,1) reads the last texel, byte offset (width*height-1)*4.
C7_TexelInBounds ==
    LET x == texture_x(tex_u, texture.width)
        y == texture_y(tex_v, texture.height)
        i == texture_index(texture, tex_u, tex_v)
    IN  pc = "sampled" =>
            /\ x \in 0..(texture.width - 1)
            /\ y \in 0..(texture.height - 1)
            /\ i + 4 <= texture.data.len
            /\ tex_read # Panic
            /\ tex_read = Color(ByteAt(texture.data, i),
                                ByteAt(texture.data, i + 1),
                                ByteAt(texture.data, i + 2))
            /\ (IsZero(tex_u) /\ IsZero(tex_v)) => i = 0
            /\ (tex_u = One /\ tex_v = One) =>
                   i = (texture.width * texture.height - 1) * 4

\* what the code guarantees: the same on every texture whose width and height
\* are at most 2^24 + 1, where width - 1 and height - 1 are f32 values
C7_TexelInBoundsUpTo2p24 ==
    (texture.width <= 16777217 /\ texture.height <= 16777217) =>
        C7_TexelInBounds

\* (u, v) = (1, 1) on a texture of more than one row and column read its last
\* texel
C7_Witness ==
    /\ pc = "sampled"
    /\ tex_u = One
    /\ tex_v = One
    /\ texture.width > 1
    /\ texture.height > 1
    /\ tex_read = Color(ByteAt(texture.data, texture.data.len - 4),
                        ByteAt(texture.data, texture.data.len - 3),
                        ByteAt(texture.data, texture.data.len - 2))

(***************************************************************************)
(* Properties of cast_ray (checked under Spec)                             *)
(***************************************************************************)
\* results[i] is what ray_intersect returned for the i-th solid of the
\* iteration order: the cubes in slice order, then the rectangles in slice
\* order

\* the solids that reported an intersection
Hits == {i \in 1..Len(results) : results[i].is_intersecting}

LoopDone == pc \in {"scan", "done"} /\ next_obj > NumObjects

\* C1: after the scan loop the selected hit is the result of an intersecting
\* solid, no intersecting solid has a strictly smaller distance, and zbuffer
\* is the selected distance; a hit is selected whenever some solid reports an
\* intersection at a finite distance.
C1_NearestHitSelected ==
    LoopDone =>
        LET res == results
            hits == Hits
        IN  /\ Len(res) = NumObjects
            /\ intersect.is_intersecting =>
                /\ \E i \in hits : intersect = res[i]
                /\ \A j \in hits : ~FLt(res[j].distance, intersect.distance)
                /\ zbuffer = intersect.distance
            /\ (\E i \in hits : FLt(res[i].distance, PosInf)) =>
                   intersect.is_intersecting

\* the C1 case: the nearest of several hits at different distances was met
\* after a farther one, and was selected
C1_Witness ==
    /\ pc = "done"
    /\ \E i, j \in Hits :
        /\ i < j
        /\ FLt(results[j].distance, results[i].distance)
        /\ intersect = results[j]
        /\ zbuffer = results[j].distance

\* the selected hit is the first, in iteration order, of the nearest hits
C2_FirstOfTies ==
    (LoopDone /\ intersect.is_intersecting) =>
        LET res == results
            ties == {i \in 1..NumObjects :
                        /\ res[i].is_intersecting
                        /\ FEq(res[i].distance, intersect.distance)}
        IN  \E i \in ties :
                /\ \A j \in ties : i <= j
                /\ intersect = res[i]

\* a scanned result at the distance of the current best leaves it in place
C2_TieKeepsBest ==
    (/\ pc = "scan"
     /\ next_obj <= NumObjects
     /\ intersect.is_intersecting
     /\ tmp'.is_intersecting
     /\ FEq(tmp'.distance, zbuffer)) =>
        (intersect' = intersect /\ zbuffer' = zbuffer)

\* C2: of several intersecting solids at exactly the minimum distance,
\* cast_ray selects the first in iteration order (the cubes in slice order,
\* then the rectangles in slice order); a later solid at an equal distance
\* never replaces the current best.
C2_TiesResolveToFirst == []C2_FirstOfTies /\ [][C2_TieKeepsBest]_vars

\* the C2 case: a cube and a rectangle of different materials tie at the
\* minimum distance, and the cube's hit is the one selected
C2_Witness ==
    /\ pc = "done"
    /\ \E i, j \in Hits :
        /\ i <= Len(cubes)
        /\ j > Len(cubes)
        /\ FEq(results[i].distance, intersect.distance)
        /\ FEq(results[j].distance, intersect.distance)
        /\ results[j] # results[i]
        /\ results[j].material # results[i].material
        /\ intersect = results[i]

\* center and half extents of the i-th solid
CenterOf(i) ==
    IF i <= Len(cubes) THEN cubes[i].center
    ELSE rectangles[i - Len(cubes)].center
HalfOf(i) ==
    IF i <= Len(cubes)
    THEN LET h == FDiv(cubes[i].side_length, Two) IN Vec3(h, h, h)
    ELSE LET r == rectangles[i - Len(cubes)]
         IN  Vec3(FDiv(r.width, Two), FDiv(r.height, Two), FDiv(r.depth, Two))

\* the origin is outside the i-th box beyond one of its faces and the
\* direction does not come back toward that face
PointsAwayFrom(i) ==
    \E a \in Axes :
        \/ /\ FGt(Comp(ray_origin, a),
                  FAdd(Comp(CenterOf(i), a), Comp(HalfOf(i), a)))
           /\ FGe(Comp(ray_direction, a), Zero)
        \/ /\ FLt(Comp(ray_origin, a),
                  FSub(Comp(CenterOf(i), a), Comp(HalfOf(i), a)))
           /\ FLe(Comp(ray_direction, a), Zero)

\* C3: when no solid reports an intersection, as for a ray that starts
\* outside every box and points away from all of them, cast_ray returns
\* exactly Color(9, 20, 55) and evaluates no lighting term.
C3_NoHitGivesBackground ==
    pc = "done" =>
        LET hits == Hits
        IN  /\ (\A i \in 1..NumObjects : PointsAwayFrom(i)) => hits = {}
            /\ hits = {} =>
                /\ pixel_color = Color(9, 20, 55)
                /\ shading = None

\* the C3 case: a ray pointing away from the two or more boxes of the scene
\* got the background color
C3_Witness ==
    /\ pc = "done"
    /\ NumObjects >= 2
    /\ \A i \in 1..NumObjects : PointsAwayFrom(i)
    /\ pixel_color = Color(9, 20, 55)
    /\ shading = None

(***************************************************************************)
(* Texture coordinates of ray_intersect (checked under SpecBox)            *)
(***************************************************************************)
InUnit(a) == FGe(a, Zero) /\ FLe(a, One)

\* C11: every intersecting result of ray_intersect, on every one of the six
\* faces, has texture coordinates u and v each in [0,1].
C11_UVInUnitRange ==
    (Returned /\ tmp.is_intersecting) => (InUnit(tmp.u) /\ InUnit(tmp.v))

\* what the code returns instead: u is in [0,1] except on the -X face and v
\* is in [0,1] except on the -Y face, where they are in [-1,0]
C11_UVRangePerFace ==
    (Returned /\ tmp.is_intersecting) =>
        /\ IF tmp.normal = AxisVec("x", -1)
           THEN FGe(tmp.u, F(-1)) /\ FLe(tmp.u, Zero)
           ELSE InUnit(tmp.u)
        /\ IF tmp.normal = AxisVec("y", -1)
           THEN FGe(tmp.v, F(-1)) /\ FLe(tmp.v, Zero)
           ELSE InUnit(tmp.v)

\* a hit on the -X face away from its far edge, where u is negative
C11_NegativeU ==
    /\ Returned
    /\ tmp.is_intersecting
    /\ tmp.normal = AxisVec("x", -1)
    /\ FLt(tmp.u, Zero)

(***************************************************************************)
(* Properties of the lighting of cast_ray (checked under Spec)             *)
(***************************************************************************)
Shaded == pc = "done" /\ shading # None

\* normal . light_dir for the best hit, clamped to [0,1]
ClampedCosine ==
    FClamp(VDot(intersect.normal,
                normalize(VSub(light.position, intersect.point))),
           Zero, One)

\* a channel scaled by a factor, clamped to [0,255], the fraction dropped
TruncClamp(c, factor) ==
    LET p == FMul(F(c), factor)
    IN  IF FLt(p, Zero) THEN 0
        ELSE IF FGt(p, F(255)) THEN 255
        ELSE Trunc(p)

\* a color scaled once by a factor
ScaledOnce(col, factor) ==
    Color(TruncClamp(col.r, factor), TruncClamp(col.g, factor),
          TruncClamp(col.b, factor))

\* the product of the three weights of the diffuse term
DiffuseWeight ==
    FMul(FMul(intersect.material.albedo[1], shading.diffuse_intensity),
         light.intensity)

\* C12 as claimed: the base diffuse term is the material's diffuse color
\* scaled once by the product albedo[0] * diffuse_intensity * light.intensity
\* and clamped to [0,255], with diffuse_intensity = clamp(normal . light_dir,
\* 0, 1).
C12_ScaledByProduct ==
    Shaded =>
        /\ FEq(shading.diffuse_intensity, ClampedCosine)
        /\ shading.base_diffuse =
               ScaledOnce(intersect.material.diffuse, DiffuseWeight)

\* C12 amended: the base diffuse term is the material's diffuse color scaled
\* by albedo[0], then by diffuse_intensity, then by light.intensity, each
\* scaling clamped to [0,255] and truncated to whole channels before the
\* next, with diffuse_intensity = clamp(normal . light_dir, 0, 1).
C12_ScaledInThreeSteps ==
    Shaded =>
        /\ FEq(shading.diffuse_intensity, ClampedCosine)
        /\ shading.base_diffuse =
               ScaledOnce(ScaledOnce(ScaledOnce(intersect.material.diffuse,
                                                intersect.material.albedo[1]),
                                     shading.diffuse_intensity),
                          light.intensity)

\* the C12 case: a hit facing the light whose base diffuse term lost a
\* fraction at an earlier step and so differs from the color scaled by the
\* product
C12_Witness ==
    /\ Shaded
    /\ shading.diffuse_intensity = One
    /\ shading.base_diffuse #
           ScaledOnce(intersect.material.diffuse, DiffuseWeight)

\* a color scaled by the three weights of a diffuse term, one after another
DiffuseWeighted(col) ==
    ScaledOnce(ScaledOnce(ScaledOnce(col, intersect.material.albedo[1]),
                          shading.diffuse_intensity),
               light.intensity)

\* the texel of the best hit's texture at its (u,v): the three bytes at
\* (row * width + column) * 4, row and column clamped to the texture
TexelAtHit ==
    LET t == intersect.material.texture
        col == AsUsize(FClamp(FMul(intersect.u, F(t.width)), Zero,
                              F(t.width - 1)))
        row == AsUsize(FClamp(FMul(intersect.v, F(t.height)), Zero,
                              F(t.height - 1)))
        at == (row * t.width + col) * 4
    IN  Color(ByteAt(t.data, at), ByteAt(t.data, at + 1),
              ByteAt(t.data, at + 2))

\* the second diffuse contribution: nothing without a texture
TextureDiffuse ==
    IF intersect.material.texture = None THEN Color(0, 0, 0)
    ELSE DiffuseWeighted(TexelAtHit)

\* C13: for the nearest hit cast_ray returns ((base_diffuse (+) texture_diffuse)
\* (+) specular) (+) emission with (+) the saturating addition, where
\* texture_diffuse is the sampled texel under the weights of base_diffuse,
\* added to base_diffuse and not put in its place, and is nothing when the
\* material has no texture.
C13_SumOfTerms ==
    Shaded =>
        /\ shading.base_diffuse = DiffuseWeighted(intersect.material.diffuse)
        /\ shading.diffuse = SaturatedSum(shading.base_diffuse, TextureDiffuse)
        /\ intersect.material.texture = None =>
               shading.diffuse = shading.base_diffuse
        /\ shading.emission = ScaledOnce(intersect.material.emission, Frac(18, 10))
        /\ pixel_color =
               SaturatedSum(SaturatedSum(SaturatedSum(shading.base_diffuse,
                                                      TextureDiffuse),
                                         shading.specular),
                            shading.emission)

\* the C13 case: a textured hit whose base and texture contributions are both
\* visible in the red channel of the diffuse term, next to a specular term
C13_Witness ==
    /\ Shaded
    /\ intersect.material.texture # None
    /\ shading.base_diffuse.r > 0
    /\ TextureDiffuse.r > 0
    /\ shading.diffuse.r = shading.base_diffuse.r + TextureDiffuse.r
    /\ shading.specular.r > 0
    /\ pixel_color.r > shading.diffuse.r

(***************************************************************************)
(* Cube against RectangularPrism (checked under SpecBox)                   *)
(***************************************************************************)
\* the same flag and, for a hit, the same distance, point, normal, u and v
SameResult(a, b) ==
    /\ a.is_intersecting = b.is_intersecting
    /\ a.is_intersecting =>
        /\ a.distance = b.distance
        /\ a.point = b.point
        /\ a.normal = b.normal
        /\ a.u = b.u
        /\ a.v = b.v

\* the box under test as the other type: a cube as the prism of its side
\* on every axis, a prism of equal extents as the cube of that side
AsPrism(c) ==
    RectangularPrism(c.center, c.side_length, c.side_length, c.side_length,
                     c.material)
AsCube(p) == Cube(p.center, p.width, p.material)
IsUniformPrism ==
    /\ solid[1] = "prism"
    /\ solid[2].width = solid[2].height
    /\ solid[2].height = solid[2].depth

\* the box under test as the other type: what its locals can be, and what it
\* returns from the locals of the call under test
OtherSlab ==
    IF solid[1] = "cube"
    THEN PrismSlab(AsPrism(solid[2]), ray_origin, ray_direction)
    ELSE CubeSlab(AsCube(solid[2]), ray_origin, ray_direction)
OtherAfterSlab ==
    IF solid[1] = "cube"
    THEN PrismAfterSlab(AsPrism(solid[2]), locals, ray_origin, ray_direction)
    ELSE CubeAfterSlab(AsCube(solid[2]), locals, ray_origin, ray_direction)

\* from the t_min and t_max at hand the two types get the same t_near_val and
\* t_far_val on one target, whichever it is
SameNearFar ==
    \A tie \in ZeroTies :
        CubeNearFarOn(locals.min, locals.max, locals.t_min, locals.t_max, tie)
            = PrismNearFarOn(locals.min, locals.max, locals.t_min,
                             locals.t_max, tie)

\* C14: a Cube of center c and side s and a RectangularPrism of center c and
\* width = height = depth = s return the same result for every ray: the same
\* is_intersecting flag and, for a hit, the same distance, point, normal, u, v
\* (the two being run on the same target).
C14_CubeIsUniformPrism ==
    (Returned /\ (solid[1] = "cube" \/ IsUniformPrism)) =>
        /\ locals \in OtherSlab
        /\ SameNearFar
        /\ SameResult(tmp, OtherAfterSlab)

\* the C14 case: a ray that meets a cube away from the origin on an edge,
\* where the choice of the normal is a tie between two axes
C14_Witness ==
    /\ Returned
    /\ solid[1] = "cube"
    /\ solid[2].center # Vec3(Zero, Zero, Zero)
    /\ tmp.is_intersecting
    /\ FaceDiff("y") = FaceDiff("z")
    /\ FLt(FaceDiff("x"), FaceDiff("y"))
    /\ \A r \in PrismRayIntersect(AsPrism(solid[2]), ray_origin, ray_direction) :
        r.normal = tmp.normal

(***************************************************************************)
(* The loop of main (main.rs:530-578) around render (main.rs:85-109)       *)
(***************************************************************************)
\* iterations of the loop and pixels of the framebuffer that are followed
MaxFrames == 6
FramePixels == 3

\* the light main builds before the loop (main.rs:530-534)
MainLight ==
    Light(Vec3(Zero, Frac(51, 10), Frac(1, 10)), Color(255, 236, 183),
          Frac(17, 10))

\* main.rs:535
new_light_intensity == Frac(2, 10)

InitMain ==
    /\ pc = "loop"
    /\ light = MainLight
    /\ light_on = FALSE
    /\ l_presses = 0
    /\ frame = 0
    /\ pixel = 0
    /\ pass_light = <<>>
    /\ NoRay
    /\ NoColor
    /\ NoTexture
    /\ cubes = None
    /\ rectangles = None
    /\ next_obj = None
    /\ results = None
    /\ zbuffer = None
    /\ intersect = None
    /\ shading = None
    /\ pixel_color = None

\* the key handling without the flip of light_on
PollKeys_flag_kept ==
    /\ pc = "loop"
    /\ frame < MaxFrames
    /\ \E l_pressed \in BOOLEAN :
        IF l_pressed
        THEN /\ light' = [light EXCEPT !.intensity =
                             IF light_on THEN Frac(17, 10)
                             ELSE new_light_intensity]
             /\ UNCHANGED light_on
             /\ l_presses' = l_presses + 1
        ELSE UNCHANGED <<light, light_on, l_presses>>
    /\ frame' = frame + 1
    /\ pixel' = 0
    /\ pass_light' = <<>>
    /\ pc' = "render"
    /\ UNCHANGED <<rayVars, colorVars, texVars, cubes, rectangles, next_obj,
                   results, zbuffer, intersect, shading, pixel_color>>

\* one iteration of the while loop up to the call of render: the window is
\* open and Escape is up, the keys are read (the camera keys move the camera
\* only), and a press of L sets the intensity from light_on and flips it
PollKeys ==
    /\ pc = "loop"
    /\ frame < MaxFrames
    /\ \E l_pressed \in BOOLEAN :
        IF l_pressed
        THEN /\ light' = [light EXCEPT !.intensity =
                             IF light_on THEN Frac(17, 10)
                             ELSE new_light_intensity]
             /\ light_on' = ~light_on
             /\ l_presses' = l_presses + 1
        ELSE UNCHANGED <<light, light_on, l_presses>>
    /\ frame' = frame + 1
    /\ pixel' = 0
    /\ pass_light' = <<>>
    /\ pc' = "render"
    /\ UNCHANGED <<rayVars, colorVars, texVars, cubes, rectangles, next_obj,
                   results, zbuffer, intersect, shading, pixel_color>>

\* one pixel of render: cast_ray is handed the light of main by reference
RenderPixel ==
    /\ pc = "render"
    /\ pixel < FramePixels
    /\ pass_light' = Append(pass_light, light.intensity)
    /\ pixel' = pixel + 1
    /\ UNCHANGED <<pc, light, light_on, l_presses, frame, rayVars, colorVars,
                   texVars, cubes, rectangles, next_obj, results, zbuffer,
                   intersect, shading, pixel_color>>

\* render returns; the buffer is shown and the thread sleeps
EndFrame ==
    /\ pc = "render"
    /\ pixel = FramePixels
    /\ pc' = "loop"
    /\ UNCHANGED <<light, light_on, l_presses, frame, pixel, pass_light,
                   rayVars, colorVars, texVars, cubes, rectangles, next_obj,
                   results, zbuffer, intersect, shading, pixel_color>>

\* the window is closed or Escape is down: the loop ends
CloseWindow ==
    /\ pc = "loop"
    /\ pc' = "closed"
    /\ UNCHANGED <<light, light_on, l_presses, frame, pixel, pass_light,
                   rayVars, colorVars, texVars, cubes, rectangles, next_obj,
                   results, zbuffer, intersect, shading, pixel_color>>

NextMain == PollKeys \/ RenderPixel \/ EndFrame \/ CloseWindow

SpecMain == InitMain /\ [][NextMain]_vars

(***************************************************************************)
(* Properties of the light of main (checked under SpecMain)                *)
(***************************************************************************)
\* the level after a number of presses of L
LevelAfter(n) == IF n % 2 = 1 THEN Frac(2, 10) ELSE Frac(17, 10)

\* the intensity is the level of the number of presses so far, and every
\* pixel of the pass at hand was shaded with it
C15_TwoLevels ==
    /\ light.intensity \in {Frac(17, 10), Frac(2, 10)}
    /\ light.intensity = LevelAfter(l_presses)
    /\ \A i \in 1..Len(pass_light) : pass_light[i] = light.intensity

\* the intensity changes only in the key handling, by one press, to the
\* other level, and never while render is running
C15_ChangesBetweenPasses ==
    /\ pc = "render" => light' = light
    /\ light'.intensity # light.intensity =>
        /\ pc = "loop"
        /\ l_presses' = l_presses + 1
    /\ l_presses' # l_presses => light'.intensity # light.intensity

\* C15: in the main loop the light intensity is always 1.7 (day) or 0.2
\* (night): it starts at 1.7, each press of L switches it to the other level
\* (0.2 after an odd number of presses, 1.7 after an even number), and it
\* changes only between calls of render, so every pixel of one pass is shaded
\* with the same intensity.
C15_LightTogglesBetweenPasses ==
    [] C15_TwoLevels /\ [][C15_ChangesBetweenPasses]_vars

\* the C15 case: after L was pressed twice, then once more, a whole pass has
\* been shaded at the night level
C15_Witness ==
    /\ pc = "render"
    /\ l_presses = 3
    /\ light_on
    /\ pixel = FramePixels
    /\ pass_light = [i \in 1..FramePixels |-> Frac(2, 10)]

====
